---- MODULE Spec2Model ----
(***************************************************************************)
(* Model of the QueryPanel node SDK: the tenant-isolation rewriter and    *)
(* database registry of QueryEngine (src/src/core/query-engine.ts), the   *)
(* table allow-list of the Postgres and ClickHouse adapters               *)
(* (src/src/adapters/postgres.ts, src/src/adapters/clickhouse.ts) and the *)
(* generate/execute/repair loop of ask (routes/query.ts).                 *)
(*                                                                         *)
(* SQL texts, identifiers and messages are TLA+ strings and every text    *)
(* function works on characters (SubSeq, Len, \o), as the source does.    *)
(***************************************************************************)
EXTENDS Integers, Sequences, FiniteSets, TLC

(***************************************************************************)
(* Characters and strings                                                  *)
(***************************************************************************)

\* JavaScript `undefined` for an optional string field or argument.
Undefined == "#undefined"

UpperChars == "ABCDEFGHIJKLMNOPQRSTUVWXYZ"

LowerChars == "abcdefghijklmnopqrstuvwxyz"

DigitChars == "0123456789"

CharAt(s, i) == IF i >= 1 /\ i <= Len(s) THEN SubSeq(s, i, i) ELSE ""

\* s.slice(from - 1, to) with 1-based inclusive bounds, clamped to s
Slice(s, from, to) ==
    LET lo == IF from < 1 THEN 1 ELSE from
        hi == IF to > Len(s) THEN Len(s) ELSE to
    IN  IF lo > hi THEN "" ELSE SubSeq(s, lo, hi)

CharsOf(s) == {SubSeq(s, i, i) : i \in 1..Len(s)}

UpperSet == CharsOf(UpperChars)

LowerSet == CharsOf(LowerChars)

DigitSet == CharsOf(DigitChars)

IsUpper(c) == c \in UpperSet

IsLower(c) == c \in LowerSet

IsDigit(c) == c \in DigitSet

\* [a-zA-Z_]
IdentStartSet == UpperSet \cup LowerSet \cup {"_"}

IsIdentStart(c) == c \in IdentStartSet

\* [a-zA-Z0-9_], the regular-expression class \w
WordCharSet == IdentStartSet \cup DigitSet

IsWordChar(c) == c \in WordCharSet

\* the regular-expression class \s, on the characters the model uses
IsSpace(c) == c \in {" ", "\t", "\n"}

\* the lower-case letter of each upper-case letter
LowerOf ==
    [c \in UpperSet |->
        LET k == CHOOSE i \in 1..Len(UpperChars) : SubSeq(UpperChars, i, i) = c
        IN  SubSeq(LowerChars, k, k)]

LowerChar(c) == IF c \in UpperSet THEN LowerOf[c] ELSE c

\* String.prototype.toLowerCase on ASCII text
RECURSIVE LowerFrom(_, _)
LowerFrom(s, i) ==
    IF i > Len(s) THEN ""
    ELSE LowerChar(SubSeq(s, i, i)) \o LowerFrom(s, i + 1)

ToLowerCase(s) == LowerFrom(s, 1)

\* s.startsWith(sub, i) with 1-based i
StartsWithAt(s, sub, i) ==
    /\ i >= 1
    /\ i + Len(sub) - 1 <= Len(s)
    /\ SubSeq(s, i, i + Len(sub) - 1) = sub

\* String.prototype.includes
Includes(s, sub) == \E i \in 1..(Len(s) + 1) : StartsWithAt(s, sub, i)

\* JavaScript truthiness of an optional string
Truthy(s) == s # Undefined /\ s # ""

\* String(n) for n >= 0
RECURSIVE NatToString(_)
NatToString(n) ==
    IF n < 10 THEN SubSeq(DigitChars, n + 1, n + 1)
    ELSE NatToString(n \div 10) \o SubSeq(DigitChars, (n % 10) + 1, (n % 10) + 1)

(***************************************************************************)
(* QueryEngine.ensureTenantIsolation                                       *)
(***************************************************************************)

\* ParamRecord: a function from key to value. params[key] = value.
SetParam(params, key, value) == (key :> value) @@ params

NoParams == <<>>

\* Position of the first match of /\bwhere\b/i in sql, 0 when none.
RECURSIVE WhereIndexFrom(_, _)
WhereIndexFrom(sql, i) ==
    IF i + 4 > Len(sql) THEN 0
    ELSE IF /\ ToLowerCase(SubSeq(sql, i, i + 4)) = "where"
            /\ ~IsWordChar(CharAt(sql, i - 1))
            /\ ~IsWordChar(CharAt(sql, i + 5))
         THEN i
         ELSE WhereIndexFrom(sql, i + 1)

WhereIndex(sql) == WhereIndexFrom(sql, 1)

\* /\bwhere\b/i.test(sql)
HasWhere(sql) == WhereIndex(sql) > 0

\* variant: the relational literal without its quotes
tenantPredicateUnquoted(metadata, tenantId) ==
    IF metadata.dialect = "clickhouse"
    THEN metadata.tenantFieldName \o " = {" \o metadata.tenantFieldName \o ":"
         \o (IF metadata.tenantFieldType = Undefined
             THEN "String" ELSE metadata.tenantFieldType)
         \o "}"
    ELSE metadata.tenantFieldName \o " = " \o tenantId

\* the predicate the rewriter synthesizes
tenantPredicate(metadata, tenantId) ==
    IF metadata.dialect = "clickhouse"
    THEN metadata.tenantFieldName \o " = {" \o metadata.tenantFieldName \o ":"
         \o (IF metadata.tenantFieldType = Undefined
             THEN "String" ELSE metadata.tenantFieldType)
         \o "}"
    ELSE metadata.tenantFieldName \o " = '" \o tenantId \o "'"

\* variant: the predicate is joined to the end of the statement
SpliceAtEnd(sql, predicate) ==
    sql \o " AND " \o predicate

\* sql.replace(/\bwhere\b/i, (match) => `${match} ${tenantPredicate} AND `)
SpliceAfterWhere(sql, predicate) ==
    LET w == WhereIndex(sql)
    IN  Slice(sql, 1, w + 4) \o " " \o predicate \o " AND "
        \o Slice(sql, w + 5, Len(sql))

\* variant: the mapping is left as the caller supplied it
TenantParamsUntouched(params, metadata, tenantId) ==
    params

\* The parameter mapping after the call: the tenant key is assigned before
\* the text is looked at, for either dialect.
TenantParams(params, metadata, tenantId) ==
    SetParam(params, metadata.tenantFieldName, tenantId)

\* variant: the rewrite that does not look at enforceTenantIsolation
ensureTenantIsolationAlwaysEnforced(sql, params, metadata, tenantId) ==
    IF ~Truthy(metadata.tenantFieldName)
    THEN [sql |-> sql, params |-> params]
    ELSE LET tenantField == metadata.tenantFieldName
             params2 == TenantParams(params, metadata, tenantId)
         IN  IF Includes(ToLowerCase(sql), ToLowerCase(tenantField))
             THEN [sql |-> sql, params |-> params2]
             ELSE IF HasWhere(sql)
             THEN [sql |-> SpliceAfterWhere(sql,
                               tenantPredicate(metadata, tenantId)),
                   params |-> params2]
             ELSE [sql |-> sql \o " WHERE "
                           \o tenantPredicate(metadata, tenantId),
                   params |-> params2]

\* variant: the rewrite without the test for the tenant field in the text
ensureTenantIsolationNoPresenceTest(sql, params, metadata, tenantId) ==
    IF ~Truthy(metadata.tenantFieldName)
       \/ metadata.enforceTenantIsolation = "false"
    THEN [sql |-> sql, params |-> params]
    ELSE LET params2 == TenantParams(params, metadata, tenantId)
         IN  IF HasWhere(sql)
             THEN [sql |-> SpliceAfterWhere(sql,
                               tenantPredicate(metadata, tenantId)),
                   params |-> params2]
             ELSE [sql |-> sql \o " WHERE "
                           \o tenantPredicate(metadata, tenantId),
                   params |-> params2]

\* Returns the SQL the function returns and the mapping as the function
\* leaves it (it mutates its argument).
ensureTenantIsolation(sql, params, metadata, tenantId) ==
    IF ~Truthy(metadata.tenantFieldName)
       \/ metadata.enforceTenantIsolation = "false"
    THEN [sql |-> sql, params |-> params]
    ELSE LET tenantField == metadata.tenantFieldName
             params2 == TenantParams(params, metadata, tenantId)
         IN  IF Includes(ToLowerCase(sql), ToLowerCase(tenantField))
             THEN [sql |-> sql, params |-> params2]
             ELSE IF HasWhere(sql)
             THEN [sql |-> SpliceAfterWhere(sql,
                               tenantPredicate(metadata, tenantId)),
                   params |-> params2]
             ELSE [sql |-> sql \o " WHERE "
                           \o tenantPredicate(metadata, tenantId),
                   params |-> params2]

(***************************************************************************)
(* Table allow-list of the adapters                                        *)
(***************************************************************************)

\* value.trim()
RECURSIVE TrimStart(_)
TrimStart(s) ==
    IF s # "" /\ IsSpace(Head(s)) THEN TrimStart(Tail(s)) ELSE s

RECURSIVE TrimEnd(_)
TrimEnd(s) ==
    IF s # "" /\ IsSpace(CharAt(s, Len(s)))
    THEN TrimEnd(Slice(s, 1, Len(s) - 1)) ELSE s

Trim(s) == TrimEnd(TrimStart(s))

\* s.lastIndexOf("."), 0 when absent
RECURSIVE LastDot(_, _)
LastDot(s, i) ==
    IF i < 1 THEN 0
    ELSE IF SubSeq(s, i, i) = "." THEN i ELSE LastDot(s, i - 1)

\* /^[A-Za-z_][A-Za-z0-9_]*$/.test(value)
isSafeIdentifier(value) ==
    /\ value # ""
    /\ IsIdentStart(Head(value))
    /\ \A i \in 1..Len(value) : IsWordChar(SubSeq(value, i, i))

tableKey(schema, table) == schema \o "." \o table

\* trimmed.split(".") followed by two pops: the last part, and the part
\* before it or the default schema when there is none.
SplitTable(trimmed, defaultSchema) ==
    LET d == LastDot(trimmed, Len(trimmed))
        before == Slice(trimmed, 1, d - 1)
        d2 == LastDot(before, Len(before))
    IN  [table |-> Slice(trimmed, d + 1, Len(trimmed)),
         schema |-> IF d = 0 THEN defaultSchema
                    ELSE Slice(before, d2 + 1, Len(before))]

\* postgres.ts normalizeTableFilter: the sequence of schema.table keys kept
RECURSIVE PgNormalizeFrom(_, _, _, _)
PgNormalizeFrom(tables, defaultSchema, i, normalized) ==
    IF i > Len(tables) THEN normalized
    ELSE LET trimmed == Trim(tables[i])
             parts == SplitTable(trimmed, defaultSchema)
             key == tableKey(parts.schema, parts.table)
         IN  IF \/ trimmed = ""
                \/ ~isSafeIdentifier(parts.schema)
                \/ ~isSafeIdentifier(parts.table)
                \/ \E j \in 1..Len(normalized) : normalized[j] = key
             THEN PgNormalizeFrom(tables, defaultSchema, i + 1, normalized)
             ELSE PgNormalizeFrom(tables, defaultSchema, i + 1,
                                  Append(normalized, key))

PgNormalizeTableFilter(tables, defaultSchema) ==
    PgNormalizeFrom(tables, defaultSchema, 1, <<>>)

\* clickhouse.ts normalizeTableFilter: the bare table names kept
RECURSIVE ChNormalizeFrom(_, _, _)
ChNormalizeFrom(tables, i, normalized) ==
    IF i > Len(tables) THEN normalized
    ELSE LET trimmed == Trim(tables[i])
             tableName == SplitTable(trimmed, "").table
         IN  IF \/ trimmed = ""
                \/ tableName = ""
                \/ \E j \in 1..Len(normalized) : normalized[j] = tableName
             THEN ChNormalizeFrom(tables, i + 1, normalized)
             ELSE ChNormalizeFrom(tables, i + 1, Append(normalized, tableName))

ChNormalizeTableFilter(tables) == ChNormalizeFrom(tables, 1, <<>>)

\* end of the run \s+ that starts at i; i - 1 when there is no space at i
RECURSIVE SpacesEnd(_, _)
SpacesEnd(s, i) ==
    IF IsSpace(CharAt(s, i)) THEN SpacesEnd(s, i + 1) ELSE i - 1

\* end of the run [a-zA-Z0-9_]* that starts at i
RECURSIVE WordEnd(_, _)
WordEnd(s, i) ==
    IF IsWordChar(CharAt(s, i)) THEN WordEnd(s, i + 1) ELSE i - 1

NoMatch == [ok |-> FALSE, schema |-> Undefined, table |-> "", end |-> 0]

\* The capturing table group of the pattern, tried at position q: an
\* optional quote, an identifier, an optional quote.
MatchTable(s, q, quotes, schema) ==
    LET q1 == IF CharAt(s, q) \in quotes THEN q + 1 ELSE q
        e == WordEnd(s, q1)
        end == IF CharAt(s, e + 1) \in quotes THEN e + 1 ELSE e
    IN  IF IsIdentStart(CharAt(s, q1))
        THEN [ok |-> TRUE, schema |-> schema,
              table |-> SubSeq(s, q, end), end |-> end]
        ELSE NoMatch

\* The optional group "identifier then dot" followed by the table group,
\* tried at p; the schema is given up when no table follows the dot.
MatchQualified(s, p, quotes) ==
    LET e == WordEnd(s, p)
        withSchema ==
            IF IsIdentStart(CharAt(s, p)) /\ CharAt(s, e + 1) = "."
            THEN MatchTable(s, e + 2, quotes, SubSeq(s, p, e))
            ELSE NoMatch
    IN  IF withSchema.ok THEN withSchema
        ELSE MatchTable(s, p, quotes, Undefined)

\* One attempt of tablePattern at position i: FROM or JOIN, white space,
\* the optional qualifier (ONLY or FINAL) with white space, then the
\* qualified table. The qualifier is given up when no table follows it.
MatchAt(s, i, qualifier, quotes) ==
    LET k == SpacesEnd(s, i + 4) + 1
        k2 == SpacesEnd(s, k + Len(qualifier)) + 1
        withQualifier ==
            IF /\ ToLowerCase(Slice(s, k, k + Len(qualifier) - 1)) = qualifier
               /\ k2 > k + Len(qualifier)
            THEN MatchQualified(s, k2, quotes)
            ELSE NoMatch
    IN  IF /\ i + 3 <= Len(s)
           /\ ToLowerCase(SubSeq(s, i, i + 3)) \in {"from", "join"}
           /\ k > i + 4
        THEN IF withQualifier.ok THEN withQualifier
             ELSE MatchQualified(s, k, quotes)
        ELSE NoMatch

\* table.replace(/['"`]/g, "")
RECURSIVE StripQuotes(_, _)
StripQuotes(s, quotes) ==
    IF s = "" THEN ""
    ELSE IF Head(s) \in quotes THEN StripQuotes(Tail(s), quotes)
    ELSE Head(s) \o StripQuotes(Tail(s), quotes)

\* sql.matchAll(tablePattern): the references in order of appearance, each
\* with the captured schema (Undefined when not captured) and the table
\* name without quotes.
RECURSIVE MatchAllFrom(_, _, _, _)
MatchAllFrom(s, i, qualifier, quotes) ==
    IF i > Len(s) THEN <<>>
    ELSE LET m == MatchAt(s, i, qualifier, quotes)
         IN  IF m.ok
             THEN <<[schema |-> m.schema,
                     table |-> StripQuotes(m.table, quotes)]>>
                  \o MatchAllFrom(s, m.end + 1, qualifier, quotes)
             ELSE MatchAllFrom(s, i + 1, qualifier, quotes)

PgQuotes == {"\"", "'"}

\* The grave accent cannot be written in a TLA+ string: the model writes it
\* as the character ~, which no SQL text of the model uses otherwise.
Backtick == "~"

ChQuotes == {"\"", "'", Backtick}

PgTableRefs(sql) == MatchAllFrom(sql, 1, "only", PgQuotes)

ChTableRefs(sql) == MatchAllFrom(sql, 1, "final", ChQuotes)

SeqToSet(q) == {q[i] : i \in 1..Len(q)}

NoError == "#ok"

NotAllowedMessage(name) ==
    "Query references table \"" \o name
    \o "\" which is not in the allowed tables list"

\* the key the relational adapter looks up for a reference
PgRefKey(ref, defaultSchema) ==
    tableKey(IF ref.schema = Undefined THEN defaultSchema ELSE ref.schema,
             ref.table)

\* the message for the first key, in order, that is not in allowed;
\* NoError when there is none
RECURSIVE FirstDisallowed(_, _, _)
FirstDisallowed(keys, i, allowed) ==
    IF i > Len(keys) THEN NoError
    ELSE IF keys[i] \notin allowed THEN NotAllowedMessage(keys[i])
    ELSE FirstDisallowed(keys, i + 1, allowed)

\* the keys the relational adapter looks up, in order of appearance
PgRefKeys(sql, defaultSchema) ==
    LET refs == PgTableRefs(sql)
    IN  [i \in 1..Len(refs) |-> PgRefKey(refs[i], defaultSchema)]

\* the names the columnar adapter looks up, in order of appearance
ChRefKeys(sql) ==
    LET refs == ChTableRefs(sql)
    IN  [i \in 1..Len(refs) |-> refs[i].table]

\* PostgresAdapter.validateQueryTables: NoError, or the message thrown.
\* allowedTables is the normalized list the constructor stored.
PgValidateQueryTables(sql, allowedTables, defaultSchema) ==
    IF Len(allowedTables) = 0 THEN NoError
    ELSE FirstDisallowed(PgRefKeys(sql, defaultSchema), 1,
                         SeqToSet(allowedTables))

\* ClickHouseAdapter.validateQueryTables
ChValidateQueryTables(sql, allowedTables) ==
    IF Len(allowedTables) = 0 THEN NoError
    ELSE FirstDisallowed(ChRefKeys(sql), 1, SeqToSet(allowedTables))

(***************************************************************************)
(* Adapters, as the constructors build them                                *)
(***************************************************************************)

\* options.allowedTables is either left out (given = FALSE) or a list.
NoAllowList == [given |-> FALSE, tables |-> <<>>]

AllowList(tables) == [given |-> TRUE, tables |-> tables]

DefaultSchema == "public"

\* new PostgresAdapter(clientFn, {allowedTables}): this.allowedTables is
\* assigned only when the option is given; options is kept for reference.
PostgresAdapter(allowed) ==
    [dialect |-> "postgres",
     options |-> allowed,
     hasAllowedTables |-> allowed.given,
     allowedTables |->
        IF allowed.given
        THEN PgNormalizeTableFilter(allowed.tables, DefaultSchema)
        ELSE <<>>]

\* new ClickHouseAdapter(clientFn, {allowedTables})
ClickHouseAdapter(allowed) ==
    [dialect |-> "clickhouse",
     options |-> allowed,
     hasAllowedTables |-> allowed.given,
     allowedTables |->
        IF allowed.given THEN ChNormalizeTableFilter(allowed.tables)
        ELSE <<>>]

\* The allow-list check adapter.execute makes before it calls clientFn:
\* NoError, or the message of the error it throws.
AdapterCheckTables(adapter, sql) ==
    IF ~adapter.hasAllowedTables THEN NoError
    ELSE IF adapter.dialect = "postgres"
    THEN PgValidateQueryTables(sql, adapter.allowedTables, DefaultSchema)
    ELSE ChValidateQueryTables(sql, adapter.allowedTables)

\* the statement adapter.validate sends to clientFn
ExplainSql(sql) == "EXPLAIN " \o sql

(***************************************************************************)
(* Named to positional parameters of the relational adapter                *)
(***************************************************************************)

\* the printable characters in code-unit order, as sort() compares them
\* (the grave accent is left out: no key of the model contains it)
AsciiChars ==
    " !\"#$%&'()*+,-./0123456789:;<=>?@ABCDEFGHIJKLMNOPQRSTUVWXYZ[\\]^_abcdefghijklmnopqrstuvwxyz{|}~"

CodeOf ==
    [ch \in CharsOf(AsciiChars) |->
        CHOOSE i \in 1..Len(AsciiChars) : SubSeq(AsciiChars, i, i) = ch]

\* a < b as Array.prototype.sort() orders strings by default
RECURSIVE StringLess(_, _)
StringLess(a, b) ==
    IF b = "" THEN FALSE
    ELSE IF a = "" THEN TRUE
    ELSE IF Head(a) = Head(b) THEN StringLess(Tail(a), Tail(b))
    ELSE CodeOf[Head(a)] < CodeOf[Head(b)]

\* /^\d+$/.test(k)
IsNumericKey(k) ==
    k # "" /\ \A i \in 1..Len(k) : IsDigit(SubSeq(k, i, i))

DigitOf ==
    [d \in DigitSet |->
        CHOOSE n \in 0..9 : SubSeq(DigitChars, n + 1, n + 1) = d]

\* Number.parseInt(k, 10) of a numeric key
RECURSIVE ParseInt(_)
ParseInt(k) ==
    IF k = "" THEN 0
    ELSE 10 * ParseInt(SubSeq(k, 1, Len(k) - 1)) + DigitOf[CharAt(k, Len(k))]

\* Object.keys(params).filter(numeric).map(parseInt).sort((a, b) => a - b):
\* the numbers of the numeric keys, ascending, one per key
RECURSIVE SortedNumbers(_)
SortedNumbers(keys) ==
    IF keys = {} THEN <<>>
    ELSE LET k == CHOOSE k \in keys :
                      \A j \in keys : ParseInt(k) <= ParseInt(j)
         IN  <<ParseInt(k)>> \o SortedNumbers(keys \ {k})

\* Object.keys(params).filter(not numeric).sort()
RECURSIVE SortedNames(_)
SortedNames(keys) ==
    IF keys = {} THEN <<>>
    ELSE LET k == CHOOSE k \in keys :
                      \A j \in keys : j = k \/ StringLess(k, j)
         IN  <<k>> \o SortedNames(keys \ {k})

\* val.match(/^<([a-zA-Z0-9_]+)>$/): the text between the angle brackets
IsPlaceholderToken(val) ==
    /\ Len(val) >= 3
    /\ Head(val) = "<"
    /\ CharAt(val, Len(val)) = ">"
    /\ \A i \in 2..(Len(val) - 1) : IsWordChar(SubSeq(val, i, i))

TokenName(val) == SubSeq(val, 2, Len(val) - 1)

\* property names every object literal inherits: the in operator finds them
InheritedKeys ==
    {"constructor", "toString", "valueOf", "hasOwnProperty",
     "isPrototypeOf", "propertyIsEnumerable", "toLocaleString", "__proto__"}

\* what reading an inherited property gives: not a value of the mapping
InheritedValue == "#inherited"

\* params[key], undefined when the mapping has no such key
GetParam(params, key) ==
    IF key \in DOMAIN params THEN params[key]
    ELSE IF key \in InheritedKeys THEN InheritedValue
    ELSE Undefined

\* namedKey in params
InParams(params, key) == key \in DOMAIN params \/ key \in InheritedKeys

\* the value pushed for the number key of the sorted numeric keys
NumericValue(params, key) ==
    LET val == GetParam(params, NatToString(key))
    IN  IF val # Undefined /\ val # InheritedValue
           /\ IsPlaceholderToken(val) /\ InParams(params, TokenName(val))
        THEN GetParam(params, TokenName(val))
        ELSE val

convertNamedToPositionalParams(params) ==
    LET numericKeys == SortedNumbers({k \in DOMAIN params : IsNumericKey(k)})
        namedKeys == SortedNames({k \in DOMAIN params : ~IsNumericKey(k)})
    IN  [i \in 1..Len(numericKeys) |-> NumericValue(params, numericKeys[i])]
        \o [i \in 1..Len(namedKeys) |-> params[namedKeys[i]]]

\* what the adapter hands to the low-level function next to the statement:
\* the relational adapter a positional list, the columnar one the mapping
NoClientArgs == [kind |-> "none", values |-> <<>>]

ClientArgs(adapter, params) ==
    IF adapter.dialect = "postgres"
    THEN [kind |-> "positional",
          values |-> convertNamedToPositionalParams(params)]
    ELSE [kind |-> "named", values |-> params]

(***************************************************************************)
(* Inputs of the model                                                     *)
(***************************************************************************)

DbNames == {"db1", "db2"}

TenantIds == {"t-123", "t-9"}

Metadata(dialect, field, type, enforce) ==
    [dialect |-> dialect, tenantFieldName |-> field,
     tenantFieldType |-> type, enforceTenantIsolation |-> enforce]

\* adapter and metadata of the attachDatabase calls the model makes
Attachments ==
    { [adapter |-> PostgresAdapter(NoAllowList),
       metadata |-> Metadata("postgres", "tenant_id", Undefined, "true")],
      [adapter |-> PostgresAdapter(AllowList(<<"public.users", "orders">>)),
       metadata |-> Metadata("postgres", "tenant_id", Undefined, Undefined)],
      [adapter |-> PostgresAdapter(AllowList(<<"users">>)),
       metadata |-> Metadata("postgres", Undefined, Undefined, Undefined)],
      [adapter |-> PostgresAdapter(AllowList(<<"my-table">>)),
       metadata |-> Metadata("postgres", "tenant_id", Undefined, "false")],
      [adapter |-> ClickHouseAdapter(AllowList(<<"users">>)),
       metadata |-> Metadata("clickhouse", "tenant_id", Undefined, "true")],
      [adapter |-> ClickHouseAdapter(NoAllowList),
       metadata |-> Metadata("clickhouse", "org", "UInt64", Undefined)] }

SqlTexts ==
    { "SELECT * FROM users",
      "SELECT * FROM users WHERE active = true",
      "SELECT * FROM users WHERE tenant_id = 'other-tenant'",
      "select Tenant_ID from users",
      "SELECT nowhere FROM users where x = 1 and y in (select 1 WHERE z)",
      "SELECT * FROM users JOIN secrets ON 1 = 1",
      "SELECT * FROM analytics.events",
      "SELECT EXTRACT(YEAR FROM \"created_at\") FROM users",
      "SELECT SUBSTRING(name FROM 2) FROM users",
      "SELECT TRIM(BOTH 'x' FROM name) FROM users",
      "SELECT POSITION('e' FROM message) FROM users" }

ParamRecords == { NoParams, [n |-> "5"] }

\* what the low-level query function can answer: a number of rows, or an
\* error with a message
RowCounts == {0, 1}

ClientErrors == {"relation does not exist", ""}

(***************************************************************************)
(* State                                                                   *)
(*                                                                         *)
(* A call is one invocation by the application of validateAndExecute,     *)
(* execute or ask; calls run concurrently on one QueryEngine and each has *)
(* its own locals, which the variables indexed by call hold.              *)
(***************************************************************************)

VARIABLES
    databases,         \* QueryEngine.databases: name -> adapter
    databaseMetadata,  \* QueryEngine.databaseMetadata: name -> metadata
    defaultDatabase,   \* QueryEngine.defaultDatabase
    pc,                \* per call: where its engine call is suspended
    call,              \* per call: the engine call in flight, or the last one
    adapterCalls,      \* per call: adapter.validate/execute calls it made
    clientCalls,       \* per call: statements sent to the low-level function
    clientParams,      \* per call: what went with each of those statements
    introspection,     \* per call: what adapter.introspect returned
    result,            \* per call: how its last engine call ended
    ask,               \* per call: the locals of ask
    lastRequest,       \* per call: the last request ask posted
    posted,            \* per call: how many requests ask posted, by path
    lastFailure,       \* per call: message and SQL of the last caught failure
    tally,             \* per call: how many steps of ask succeeded and failed
    outcome            \* per call: how ask ended

registryVars == <<databases, databaseMetadata, defaultDatabase>>

callVars ==
    <<pc, call, adapterCalls, clientCalls, clientParams, introspection, result>>

askVars == <<ask, lastRequest, posted, lastFailure, tally, outcome>>

vars ==
    <<databases, databaseMetadata, defaultDatabase, pc, call, adapterCalls,
      clientCalls, clientParams, introspection, result, ask, lastRequest,
      posted, lastFailure, tally, outcome>>

Calls == DOMAIN pc

NoCall ==
    [op |-> "none", sql |-> "", params |-> NoParams, databaseName |-> Undefined,
     tenantId |-> "", finalSql |-> "", finalParams |-> NoParams,
     adapter |-> PostgresAdapter(NoAllowList),
     metadata |-> Metadata("postgres", Undefined, Undefined, Undefined)]

NoResult == [status |-> "none", rows |-> 0, error |-> "", data |-> <<>>]

\* no SchemaIntrospection returned (yet)
NoIntrospection == [status |-> "none", tables |-> {}]

Returned(rows) == [status |-> "ok", rows |-> rows, error |-> "", data |-> <<>>]

Raised(message) ==
    [status |-> "error", rows |-> 0, error |-> message, data |-> <<>>]

\* a value of a result row: what kind of JavaScript value it is, and its text
JsValue(kind, text) == [kind |-> kind, text |-> text]

\* result rows as the drivers hand them over: plain values and null, and a
\* timestamp column as a Date object next to a JSON column as an object
PlainRow ==
    [id |-> JsValue("number", "123"), name |-> JsValue("string", "Alice"),
     active |-> JsValue("boolean", "true"), tags |-> JsValue("array", "admin"),
     note |-> JsValue("null", "null")]

DatedRow ==
    [id |-> JsValue("number", "456"),
     created_at |-> JsValue("date", "2024-01-01T00:00:00.000Z"),
     profile |-> JsValue("object", "{}")]

\* the row lists the database can answer with when it answers rows rows
ResultRows(rows) ==
    IF rows = 0 THEN {<<>>} ELSE {<<PlainRow>>, <<DatedRow>>}

\* execute resolved with the rows data
ReturnedRows(data) == [Returned(Len(data)) EXCEPT !.data = data]

\* typeof value
TypeOf(value) ==
    CASE value.kind \in {"number", "string", "boolean", "undefined", "bigint"}
           -> value.kind
      [] OTHER -> "object"

\* the tag one value is replaced by
MaskValue(value) ==
    IF value.kind = "null" THEN "null"
    ELSE IF value.kind = "array" THEN "array"
    ELSE TypeOf(value)

\* the row with every value replaced by its tag
MaskRow(row) == [key \in DOMAIN row |-> MaskValue(row[key])]

anonymizeResults(rows) ==
    IF Len(rows) = 0 THEN <<>>
    ELSE [i \in 1..Len(rows) |-> MaskRow(rows[i])]

(***************************************************************************)
(* QueryEngine                                                             *)
(***************************************************************************)

attachDatabase(name, adapter, metadata) ==
    /\ databases' = (name :> adapter) @@ databases
    /\ databaseMetadata' = (name :> metadata) @@ databaseMetadata
    /\ defaultDatabase' =
          IF ~Truthy(defaultDatabase) THEN name ELSE defaultDatabase
    /\ UNCHANGED callVars
    /\ UNCHANGED askVars

\* name ?? this.defaultDatabase
ResolveName(name) == IF name = Undefined THEN defaultDatabase ELSE name

\* getDatabase(name) finds an adapter
HasDatabase(name) ==
    Truthy(ResolveName(name)) /\ ResolveName(name) \in DOMAIN databases

getDatabase(name) == databases[ResolveName(name)]

getDatabaseMetadata(name) == databaseMetadata[ResolveName(name)]

getDefaultDatabase == defaultDatabase

\* the message of the error getDatabase throws
GetDatabaseError(name) ==
    IF ~Truthy(ResolveName(name)) THEN "No database attached."
    ELSE "Database '" \o ResolveName(name) \o "' not found."

AdapterCall(method, sql, params) ==
    [method |-> method, sql |-> sql, params |-> params]

\* validateAndExecute of call c up to its first suspension: lookup, tenant
\* isolation, then adapter.validate, which sends EXPLAIN to the low-level
\* function. Changes the call variables only.
validateAndExecute(c, sql, params, databaseName, tenantId) ==
    /\ pc[c] = "idle"
    /\ IF ~HasDatabase(databaseName)
       THEN /\ call' = [call EXCEPT ![c] =
                           [NoCall EXCEPT !.op = "validateAndExecute",
                               !.sql = sql, !.params = params,
                               !.databaseName = databaseName,
                               !.tenantId = tenantId]]
            /\ adapterCalls' = [adapterCalls EXCEPT ![c] = <<>>]
            /\ clientCalls' = [clientCalls EXCEPT ![c] = <<>>]
            /\ clientParams' = [clientParams EXCEPT ![c] = <<>>]
            /\ introspection' = introspection
            /\ result' = [result EXCEPT ![c] =
                             Raised(GetDatabaseError(databaseName))]
            /\ pc' = pc
       ELSE LET metadata == getDatabaseMetadata(databaseName)
                isolated == ensureTenantIsolation(sql, params, metadata,
                                                  tenantId)
            IN  /\ call' = [call EXCEPT ![c] =
                               [op |-> "validateAndExecute", sql |-> sql,
                                params |-> params,
                                databaseName |-> databaseName,
                                tenantId |-> tenantId,
                                finalSql |-> isolated.sql,
                                finalParams |-> isolated.params,
                                adapter |-> getDatabase(databaseName),
                                metadata |-> metadata]]
                /\ adapterCalls' = [adapterCalls EXCEPT ![c] =
                      <<AdapterCall("validate", isolated.sql,
                                    isolated.params)>>]
                /\ clientCalls' = [clientCalls EXCEPT ![c] =
                      <<ExplainSql(isolated.sql)>>]
                /\ clientParams' = [clientParams EXCEPT ![c] =
                      <<ClientArgs(getDatabase(databaseName),
                                   isolated.params)>>]
                /\ introspection' = introspection
                /\ result' = [result EXCEPT ![c] = NoResult]
                /\ pc' = [pc EXCEPT ![c] = "validate"]

\* variant: the error of the EXPLAIN statement is wrapped in a new one
ValidateFailsWrapped(c, message) ==
    /\ pc[c] = "validate"
    /\ result' = [result EXCEPT ![c] =
                     Raised("Validation failed: " \o message)]
    /\ pc' = [pc EXCEPT ![c] = "idle"]
    /\ UNCHANGED <<call, adapterCalls, clientCalls, clientParams, introspection>>
    /\ UNCHANGED registryVars
    /\ UNCHANGED askVars

\* the EXPLAIN statement of call c failed: adapter.validate rejects and
\* validateAndExecute raises that error
ValidateFails(c, message) ==
    /\ pc[c] = "validate"
    /\ result' = [result EXCEPT ![c] = Raised(message)]
    /\ pc' = [pc EXCEPT ![c] = "idle"]
    /\ UNCHANGED <<call, adapterCalls, clientCalls, clientParams, introspection>>
    /\ UNCHANGED registryVars
    /\ UNCHANGED askVars

\* variant: adapter.execute is handed the statement and the mapping as
\* they were before the tenant rewrite
ValidateSucceedsUnrewritten(c) ==
    /\ pc[c] = "validate"
    /\ LET denied == AdapterCheckTables(call[c].adapter, call[c].sql)
       IN  /\ adapterCalls' = [adapterCalls EXCEPT ![c] =
                 Append(@, AdapterCall("execute", call[c].sql,
                                       call[c].params))]
           /\ IF denied # NoError
              THEN /\ clientCalls' = clientCalls
                   /\ clientParams' = clientParams
                   /\ result' = [result EXCEPT ![c] = Raised(denied)]
                   /\ pc' = [pc EXCEPT ![c] = "idle"]
              ELSE /\ clientCalls' = [clientCalls EXCEPT ![c] =
                         Append(@, call[c].sql)]
                   /\ clientParams' = [clientParams EXCEPT ![c] =
                         Append(@, ClientArgs(call[c].adapter,
                                              call[c].params))]
                   /\ result' = result
                   /\ pc' = [pc EXCEPT ![c] = "execute"]
    /\ UNCHANGED <<call, introspection>>
    /\ UNCHANGED registryVars
    /\ UNCHANGED askVars

\* the EXPLAIN statement of call c succeeded: validateAndExecute goes on to
\* adapter.execute with the same SQL and mapping; the adapter checks the
\* allow-list and then sends the statement to the low-level function
ValidateSucceeds(c) ==
    /\ pc[c] = "validate"
    /\ LET denied == AdapterCheckTables(call[c].adapter, call[c].finalSql)
       IN  /\ adapterCalls' = [adapterCalls EXCEPT ![c] =
                 Append(@, AdapterCall("execute", call[c].finalSql,
                                       call[c].finalParams))]
           /\ IF denied # NoError
              THEN /\ clientCalls' = clientCalls
                   /\ clientParams' = clientParams
                   /\ result' = [result EXCEPT ![c] = Raised(denied)]
                   /\ pc' = [pc EXCEPT ![c] = "idle"]
              ELSE /\ clientCalls' = [clientCalls EXCEPT ![c] =
                         Append(@, call[c].finalSql)]
                   /\ clientParams' = [clientParams EXCEPT ![c] =
                         Append(@, ClientArgs(call[c].adapter,
                                              call[c].finalParams))]
                   /\ result' = result
                   /\ pc' = [pc EXCEPT ![c] = "execute"]
    /\ UNCHANGED <<call, introspection>>
    /\ UNCHANGED registryVars
    /\ UNCHANGED askVars

\* QueryEngine.execute, the local helper, up to its suspension: a missing
\* database or an allow-list error becomes an empty row list
execute(c, sql, params, databaseName) ==
    /\ pc[c] = "idle"
    /\ call[c].op = "none"
    /\ ask[c].pc = "idle"
    /\ IF ~HasDatabase(databaseName)
       THEN /\ call' = [call EXCEPT ![c] =
                           [NoCall EXCEPT !.op = "execute", !.sql = sql,
                               !.params = params,
                               !.databaseName = databaseName,
                               !.finalSql = sql, !.finalParams = params]]
            /\ adapterCalls' = [adapterCalls EXCEPT ![c] = <<>>]
            /\ clientCalls' = [clientCalls EXCEPT ![c] = <<>>]
            /\ clientParams' = [clientParams EXCEPT ![c] = <<>>]
            /\ result' = [result EXCEPT ![c] = Returned(0)]
            /\ pc' = pc
       ELSE LET adapter == getDatabase(databaseName)
                denied == AdapterCheckTables(adapter, sql)
            IN  /\ call' = [call EXCEPT ![c] =
                               [op |-> "execute", sql |-> sql,
                                params |-> params,
                                databaseName |-> databaseName,
                                tenantId |-> "",
                                finalSql |-> sql, finalParams |-> params,
                                adapter |-> adapter,
                                metadata |->
                                    getDatabaseMetadata(databaseName)]]
                /\ adapterCalls' = [adapterCalls EXCEPT ![c] =
                      <<AdapterCall("execute", sql, params)>>]
                /\ IF denied # NoError
                   THEN /\ clientCalls' = [clientCalls EXCEPT ![c] = <<>>]
                        /\ clientParams' = [clientParams EXCEPT ![c] = <<>>]
                        /\ result' = [result EXCEPT ![c] = Returned(0)]
                        /\ pc' = pc
                   ELSE /\ clientCalls' = [clientCalls EXCEPT ![c] = <<sql>>]
                        /\ clientParams' = [clientParams EXCEPT ![c] =
                              <<ClientArgs(adapter, params)>>]
                        /\ result' = [result EXCEPT ![c] = NoResult]
                        /\ pc' = [pc EXCEPT ![c] = "execute"]
    /\ introspection' = introspection
    /\ UNCHANGED registryVars
    /\ UNCHANGED askVars

\* the statement of call c returned rows
ExecuteSucceeds(c, rows) ==
    /\ pc[c] = "execute"
    /\ \E data \in ResultRows(rows) :
          result' = [result EXCEPT ![c] = ReturnedRows(data)]
    /\ pc' = [pc EXCEPT ![c] = "idle"]
    /\ UNCHANGED <<call, adapterCalls, clientCalls, clientParams, introspection>>
    /\ UNCHANGED registryVars
    /\ UNCHANGED askVars

\* a helper without its catch: the failure of the statement is raised
ExecuteFailsAlwaysRaises(c, message) ==
    /\ pc[c] = "execute"
    /\ result' = [result EXCEPT ![c] = Raised(message)]
    /\ pc' = [pc EXCEPT ![c] = "idle"]
    /\ UNCHANGED <<call, adapterCalls, clientCalls, clientParams, introspection>>
    /\ UNCHANGED registryVars
    /\ UNCHANGED askVars

\* the statement of call c failed: validateAndExecute raises the error, the
\* local helper returns no rows
ExecuteFails(c, message) ==
    /\ pc[c] = "execute"
    /\ result' = [result EXCEPT ![c] =
                     IF call[c].op = "execute" THEN Returned(0)
                     ELSE Raised(message)]
    /\ pc' = [pc EXCEPT ![c] = "idle"]
    /\ UNCHANGED <<call, adapterCalls, clientCalls, clientParams, introspection>>
    /\ UNCHANGED registryVars
    /\ UNCHANGED askVars

\* the application calls validateAndExecute itself
CallValidateAndExecute(c, sql, params, databaseName, tenantId) ==
    /\ call[c].op = "none"
    /\ ask[c].pc = "idle"
    /\ validateAndExecute(c, sql, params, databaseName, tenantId)
    /\ UNCHANGED registryVars
    /\ UNCHANGED askVars

\* nameCandidate.replace(/[{}:$]/g, "")
RECURSIVE StripPlaceholderChars(_)
StripPlaceholderChars(s) ==
    IF s = "" THEN ""
    ELSE IF Head(s) \in {"{", "}", ":", "$"}
    THEN StripPlaceholderChars(Tail(s))
    ELSE Head(s) \o StripPlaceholderChars(Tail(s))

\* A generated parameter descriptor: name, placeholder and value are strings
\* or Undefined, position is a number or absent (-1).
NoPosition == 0 - 1

ParamDescriptor(name, placeholder, position, value) ==
    [name |-> name, placeholder |-> placeholder, position |-> position,
     value |-> value]

\* the key mapGeneratedParams files the descriptor at index under
ParamKey(param, index) ==
    LET nameCandidate ==
            IF param.name # Undefined /\ Trim(param.name) # ""
            THEN Trim(param.name)
            ELSE IF param.placeholder # Undefined
                    /\ Trim(param.placeholder) # ""
            THEN Trim(param.placeholder)
            ELSE IF param.position # NoPosition
            THEN NatToString(param.position)
            ELSE NatToString(index)
    IN  Trim(StripPlaceholderChars(nameCandidate))

\* QueryEngine.mapGeneratedParams
RECURSIVE MapParamsFrom(_, _, _)
MapParamsFrom(params, i, record) ==
    IF i > Len(params) THEN record
    ELSE IF params[i].value = Undefined
    THEN MapParamsFrom(params, i + 1, record)
    ELSE MapParamsFrom(params, i + 1,
             SetParam(record, ParamKey(params[i], i), params[i].value))

mapGeneratedParams(params) == MapParamsFrom(params, 1, NoParams)

(***************************************************************************)
(* ask: generate, execute, repair                                          *)
(***************************************************************************)

\* the largest maxRetry the model passes to ask
MaxRetryBound == 2

AskOptions(tenantId, maxRetryGiven, maxRetry, database, lastError, previousSql, chartType) ==
    [tenantId |-> tenantId, maxRetryGiven |-> maxRetryGiven,
     maxRetry |-> maxRetry, database |-> database, lastError |-> lastError,
     previousSql |-> previousSql, chartType |-> chartType]

NoOptions ==
    AskOptions(Undefined, FALSE, 0, Undefined, Undefined, Undefined, Undefined)

NoAsk ==
    [pc |-> "idle", options |-> NoOptions, tenantId |-> "", maxRetry |-> 0,
     attempt |-> 0, lastError |-> Undefined, previousSql |-> Undefined,
     sql |-> "", dbName |-> Undefined, defaultTenantId |-> Undefined,
     aborted |-> FALSE]

NoRequest ==
    [path |-> "", last_error |-> Undefined, previous_sql |-> Undefined,
     database |-> Undefined, rows |-> <<>>]

NoPosted == [query |-> 0, chart |-> 0, other |-> 0]

NoFailure == [message |-> Undefined, sql |-> Undefined]

\* generated: /query answers; attempts: entries into validateAndExecute;
\* the others count failures of the three suspended steps
NoTally ==
    [generated |-> 0, generationFailed |-> 0, attempts |-> 0,
     executionFailed |-> 0, chartFailed |-> 0]

NoOutcome ==
    [status |-> "none", error |-> "", attempts |-> 0, notes |-> Undefined]

AskReturned(attempts, notes) ==
    [status |-> "returned", error |-> "", attempts |-> attempts,
     notes |-> notes]

AskRaised(message) ==
    [status |-> "raised", error |-> message, attempts |-> 0,
     notes |-> Undefined]

TenantRequiredMessage ==
    "tenantId is required. Provide it per request or via defaultTenantId option."

NoDatabaseMessage ==
    "No database attached. Call attachPostgres/attachClickhouse first."

UnexpectedMessage == "Unexpected error in ask retry loop"

NoRowsNotes == "Query returned no rows."

\* the message of the error a request rejects with once its signal fired
AbortMessage == "This operation was aborted"

\* a request posted with the caller's signal: once the signal has fired it
\* can only reject, with the abort error
SignalAllows(c, message) == ask[c].aborted <=> (message = AbortMessage)

\* variant: the client's default tenant is not consulted
resolveTenantIdOptionOnly(defaultTenantId, tenantId) == tenantId

\* tenantId ?? client.getDefaultTenantId()
resolveTenantId(defaultTenantId, tenantId) ==
    IF tenantId = Undefined THEN defaultTenantId ELSE tenantId

\* a ?? b
Coalesce(a, b) == IF a = Undefined THEN b ELSE a

\* the body of the /query request: a hint is spread into it only when it
\* is truthy
QueryRequestWithoutPreviousSql(a) ==
    [path |-> "/query",
     last_error |-> IF Truthy(a.lastError) THEN a.lastError ELSE Undefined,
     previous_sql |-> Undefined,
     database |->
        IF Truthy(Coalesce(a.options.database, getDefaultDatabase))
        THEN Coalesce(a.options.database, getDefaultDatabase)
        ELSE Undefined]

QueryRequest(a) ==
    [path |-> "/query",
     last_error |-> IF Truthy(a.lastError) THEN a.lastError ELSE Undefined,
     previous_sql |->
        IF Truthy(a.previousSql) THEN a.previousSql ELSE Undefined,
     database |->
        IF Truthy(Coalesce(a.options.database, getDefaultDatabase))
        THEN Coalesce(a.options.database, getDefaultDatabase)
        ELSE Undefined]

\* The head of the retry loop with the locals a, after count requests and
\* with request the last one posted: while the guard holds the next /query
\* request is posted, else the statement after the loop raises.
LoopHead(c, a, count, request) ==
    IF a.attempt <= a.maxRetry
    THEN /\ ask' = [ask EXCEPT ![c] = [a EXCEPT !.pc = "generating"]]
         /\ lastRequest' = [lastRequest EXCEPT ![c] = QueryRequest(a)]
         /\ posted' = [posted EXCEPT ![c] = [count EXCEPT !.query = @ + 1]]
         /\ outcome' = [outcome EXCEPT ![c] = NoOutcome]
    ELSE /\ ask' = [ask EXCEPT ![c] = [a EXCEPT !.pc = "done"]]
         /\ lastRequest' = [lastRequest EXCEPT ![c] = request]
         /\ posted' = [posted EXCEPT ![c] = count]
         /\ outcome' = [outcome EXCEPT ![c] = AskRaised(UnexpectedMessage)]

\* ask(client, queryEngine, question, options) up to its first suspension
AskStart(c, defaultTenantId, options) ==
    /\ ask[c].pc = "idle"
    /\ call[c].op = "none"
    /\ LET tenantId == resolveTenantId(defaultTenantId, options.tenantId)
       IN  IF ~Truthy(tenantId)
           THEN /\ ask' = [ask EXCEPT ![c] =
                              [NoAsk EXCEPT !.pc = "done",
                                  !.options = options,
                                  !.defaultTenantId = defaultTenantId]]
                /\ lastRequest' = [lastRequest EXCEPT ![c] = NoRequest]
                /\ posted' = [posted EXCEPT ![c] = NoPosted]
                /\ outcome' = [outcome EXCEPT ![c] =
                                  AskRaised(TenantRequiredMessage)]
           ELSE LoopHead(c,
                    [pc |-> "idle", options |-> options,
                     tenantId |-> tenantId,
                     maxRetry |-> IF options.maxRetryGiven
                                  THEN options.maxRetry ELSE 0,
                     attempt |-> 0, lastError |-> options.lastError,
                     previousSql |-> options.previousSql,
                     sql |-> "", dbName |-> Undefined,
                     defaultTenantId |-> defaultTenantId,
                     aborted |-> FALSE],
                    NoPosted, NoRequest)
    /\ lastFailure' = [lastFailure EXCEPT ![c] = NoFailure]
    /\ tally' = [tally EXCEPT ![c] = NoTally]
    /\ UNCHANGED registryVars
    /\ UNCHANGED callVars

\* the /query request failed: it is awaited outside the try block
GenerationFails(c, message) ==
    /\ ask[c].pc = "generating"
    /\ SignalAllows(c, message)
    /\ ask' = [ask EXCEPT ![c].pc = "done"]
    /\ outcome' = [outcome EXCEPT ![c] = AskRaised(message)]
    /\ tally' = [tally EXCEPT ![c].generationFailed = @ + 1]
    /\ UNCHANGED <<lastRequest, posted, lastFailure>>
    /\ UNCHANGED registryVars
    /\ UNCHANGED callVars

\* the /query request answered: resolve the database, map the parameters
\* and enter validateAndExecute
GenerationSucceeds(c, response) ==
    /\ ask[c].pc = "generating"
    /\ SignalAllows(c, NoError)
    /\ LET dbName == Coalesce(response.database,
                         Coalesce(ask[c].options.database, getDefaultDatabase))
       IN  IF ~Truthy(dbName)
           THEN /\ ask' = [ask EXCEPT ![c].pc = "done",
                                      ![c].sql = response.sql]
                /\ outcome' = [outcome EXCEPT ![c] =
                                  AskRaised(NoDatabaseMessage)]
                /\ tally' = [tally EXCEPT ![c].generated = @ + 1]
                /\ UNCHANGED callVars
           ELSE /\ ask' = [ask EXCEPT ![c].pc = "executing",
                                      ![c].sql = response.sql,
                                      ![c].dbName = dbName]
                /\ outcome' = outcome
                /\ tally' = [tally EXCEPT ![c].generated = @ + 1,
                                          ![c].attempts = @ + 1]
                /\ validateAndExecute(c, response.sql,
                       mapGeneratedParams(response.params), dbName,
                       ask[c].tenantId)
    /\ UNCHANGED <<lastRequest, posted, lastFailure>>
    /\ UNCHANGED registryVars

\* variant: the catch block raises whatever the budget is
CatchNeverRetries(c, message) ==
    /\ lastFailure' = [lastFailure EXCEPT ![c] =
                          [message |-> message, sql |-> ask[c].sql]]
    /\ ask' = [ask EXCEPT ![c].pc = "done",
                          ![c].attempt = ask[c].attempt + 1]
    /\ outcome' = [outcome EXCEPT ![c] = AskRaised(message)]
    /\ UNCHANGED <<lastRequest, posted>>

\* variant: the catch block raises one attempt early
CatchRaisesEarly(c, message) ==
    LET attempt == ask[c].attempt + 1
    IN  /\ lastFailure' = [lastFailure EXCEPT ![c] =
                              [message |-> message, sql |-> ask[c].sql]]
        /\ IF attempt >= ask[c].maxRetry
           THEN /\ ask' = [ask EXCEPT ![c].pc = "done",
                                      ![c].attempt = attempt]
                /\ outcome' = [outcome EXCEPT ![c] = AskRaised(message)]
                /\ UNCHANGED <<lastRequest, posted>>
           ELSE LoopHead(c, [ask[c] EXCEPT !.attempt = attempt,
                                          !.lastError = message,
                                          !.previousSql = ask[c].sql],
                         posted[c], lastRequest[c])

\* variant: the repair hint is one variable of the module shared by the
\* calls, so a retry carries the last failure of whichever call failed last
CatchSharedHint(c, message) ==
    LET attempt == ask[c].attempt + 1
        others == {d \in Calls \ {c} : Truthy(lastFailure[d].message)}
        shared == IF others = {} THEN message
                  ELSE lastFailure[CHOOSE d \in others : TRUE].message
    IN  /\ lastFailure' = [lastFailure EXCEPT ![c] =
                              [message |-> message, sql |-> ask[c].sql]]
        /\ IF attempt > ask[c].maxRetry
           THEN /\ ask' = [ask EXCEPT ![c].pc = "done",
                                      ![c].attempt = attempt]
                /\ outcome' = [outcome EXCEPT ![c] = AskRaised(message)]
                /\ UNCHANGED <<lastRequest, posted>>
           ELSE LoopHead(c, [ask[c] EXCEPT !.attempt = attempt,
                                          !.lastError = shared,
                                          !.previousSql = ask[c].sql],
                         posted[c], lastRequest[c])

\* the catch block: count the attempt, raise when the budget is used up,
\* else save the message and the generated SQL and go round the loop
Catch(c, message) ==
    LET attempt == ask[c].attempt + 1
    IN  /\ lastFailure' = [lastFailure EXCEPT ![c] =
                              [message |-> message, sql |-> ask[c].sql]]
        /\ IF attempt > ask[c].maxRetry
           THEN /\ ask' = [ask EXCEPT ![c].pc = "done",
                                      ![c].attempt = attempt]
                /\ outcome' = [outcome EXCEPT ![c] = AskRaised(message)]
                /\ UNCHANGED <<lastRequest, posted>>
           ELSE LoopHead(c, [ask[c] EXCEPT !.attempt = attempt,
                                          !.lastError = message,
                                          !.previousSql = ask[c].sql],
                         posted[c], lastRequest[c])

ChartPath(options) ==
    IF Coalesce(options.chartType, "vega-lite") = "vizspec"
    THEN "/vizspec" ELSE "/chart"

\* variant: the chart request is posted whatever the number of rows
AskExecutedAlwaysCharts(c) ==
    /\ ask[c].pc = "executing"
    /\ pc[c] = "idle"
    /\ IF result[c].status = "ok"
       THEN /\ ask' = [ask EXCEPT ![c].pc = "charting"]
            /\ lastRequest' = [lastRequest EXCEPT ![c] =
                  [NoRequest EXCEPT !.path = ChartPath(ask[c].options),
                      !.rows = anonymizeResults(result[c].data)]]
            /\ posted' = [posted EXCEPT ![c].chart = @ + 1]
            /\ UNCHANGED <<lastFailure, tally, outcome>>
       ELSE /\ Catch(c, result[c].error)
            /\ tally' = [tally EXCEPT ![c].executionFailed = @ + 1]
    /\ UNCHANGED registryVars
    /\ UNCHANGED callVars

\* validateAndExecute has returned or raised: with rows the chart request
\* is posted, without rows ask returns, and an error goes to the catch block
AskExecuted(c) ==
    /\ ask[c].pc = "executing"
    /\ pc[c] = "idle"
    /\ IF result[c].status = "ok"
       THEN IF result[c].rows = 0
            THEN /\ ask' = [ask EXCEPT ![c].pc = "done"]
                 /\ outcome' = [outcome EXCEPT ![c] =
                       AskReturned(ask[c].attempt + 1, NoRowsNotes)]
                 /\ UNCHANGED <<lastRequest, posted, lastFailure, tally>>
            ELSE /\ ask' = [ask EXCEPT ![c].pc = "charting"]
                 /\ lastRequest' = [lastRequest EXCEPT ![c] =
                       [NoRequest EXCEPT !.path = ChartPath(ask[c].options),
                           !.rows = anonymizeResults(result[c].data)]]
                 /\ posted' = [posted EXCEPT ![c].chart = @ + 1]
                 /\ UNCHANGED <<lastFailure, tally, outcome>>
       ELSE /\ Catch(c, result[c].error)
            /\ tally' = [tally EXCEPT ![c].executionFailed = @ + 1]
    /\ UNCHANGED registryVars
    /\ UNCHANGED callVars

\* the /chart or /vizspec request answered
ChartSucceeds(c, notes) ==
    /\ ask[c].pc = "charting"
    /\ SignalAllows(c, NoError)
    /\ ask' = [ask EXCEPT ![c].pc = "done"]
    /\ outcome' = [outcome EXCEPT ![c] =
                      AskReturned(ask[c].attempt + 1, notes)]
    /\ UNCHANGED <<lastRequest, posted, lastFailure, tally>>
    /\ UNCHANGED registryVars
    /\ UNCHANGED callVars

\* the /chart or /vizspec request failed: it is awaited inside the try block
ChartFails(c, message) ==
    /\ ask[c].pc = "charting"
    /\ SignalAllows(c, message)
    /\ Catch(c, message)
    /\ tally' = [tally EXCEPT ![c].chartFailed = @ + 1]
    /\ UNCHANGED registryVars
    /\ UNCHANGED callVars

\* the caller's AbortSignal fires while ask is suspended; it was handed to
\* the two requests and not to validateAndExecute
Abort(c) ==
    /\ ask[c].pc \in {"generating", "executing", "charting"}
    /\ ~ask[c].aborted
    /\ ask' = [ask EXCEPT ![c].aborted = TRUE]
    /\ UNCHANGED <<lastRequest, posted, lastFailure, tally, outcome>>
    /\ UNCHANGED registryVars
    /\ UNCHANGED callVars

(***************************************************************************)
(* modifyChart: optional regeneration, execution, chart                    *)
(***************************************************************************)

\* ChartModifyInput: sqlModifications is absent, or an object whose
\* customSql may be absent
ModifyInput(sql, params, database, hasSqlMods, customSql) ==
    [sql |-> sql, params |-> params, database |-> database,
     hasSqlMods |-> hasSqlMods, customSql |-> customSql]

NoDatabaseSpecifiedMessage ==
    "No database specified. Provide database in input or attach a default database."

\* modifyChart returns: the response carries no attempt count
ModifyReturned(notes) == AskReturned(0, notes)

\* the /query request modifyChart posts to regenerate the statement
ModifyQueryRequest(input, databaseName) ==
    [path |-> "/query", last_error |-> Undefined,
     previous_sql |-> input.sql, database |-> databaseName]

\* modifyChart(client, queryEngine, input, options) up to its first
\* suspension
ModifyStart(c, defaultTenantId, input, options) ==
    /\ ask[c].pc = "idle"
    /\ call[c].op = "none"
    /\ LET tenantId == resolveTenantId(defaultTenantId, options.tenantId)
           databaseName == Coalesce(input.database, getDefaultDatabase)
           locals == [NoAsk EXCEPT !.options = options,
                                   !.defaultTenantId = defaultTenantId,
                                   !.tenantId = tenantId,
                                   !.sql = input.sql,
                                   !.dbName = databaseName]
       IN  IF ~Truthy(tenantId)
           THEN /\ ask' = [ask EXCEPT ![c] =
                              [NoAsk EXCEPT !.pc = "done",
                                  !.options = options,
                                  !.defaultTenantId = defaultTenantId]]
                /\ outcome' = [outcome EXCEPT ![c] =
                                  AskRaised(TenantRequiredMessage)]
                /\ UNCHANGED <<lastRequest, posted>>
                /\ UNCHANGED callVars
           ELSE IF ~Truthy(databaseName)
           THEN /\ ask' = [ask EXCEPT ![c] = [locals EXCEPT !.pc = "done"]]
                /\ outcome' = [outcome EXCEPT ![c] =
                                  AskRaised(NoDatabaseSpecifiedMessage)]
                /\ UNCHANGED <<lastRequest, posted>>
                /\ UNCHANGED callVars
           ELSE IF input.hasSqlMods /\ Truthy(input.customSql)
           THEN /\ ask' = [ask EXCEPT ![c] =
                              [locals EXCEPT !.pc = "modExecuting",
                                             !.sql = input.customSql]]
                /\ validateAndExecute(c, input.customSql, NoParams,
                                      databaseName, tenantId)
                /\ UNCHANGED <<lastRequest, posted, outcome>>
           ELSE IF input.hasSqlMods
           THEN /\ ask' = [ask EXCEPT ![c] =
                              [locals EXCEPT !.pc = "modGenerating"]]
                /\ lastRequest' = [lastRequest EXCEPT ![c] =
                                      ModifyQueryRequest(input, databaseName)]
                /\ posted' = [posted EXCEPT ![c].query = @ + 1]
                /\ UNCHANGED outcome
                /\ UNCHANGED callVars
           ELSE /\ ask' = [ask EXCEPT ![c] =
                              [locals EXCEPT !.pc = "modExecuting"]]
                /\ validateAndExecute(c, input.sql, input.params,
                                      databaseName, tenantId)
                /\ UNCHANGED <<lastRequest, posted, outcome>>
    /\ UNCHANGED <<lastFailure, tally>>
    /\ UNCHANGED registryVars

\* the /query request of modifyChart failed: modifyChart raises
ModifyGenerationFails(c, message) ==
    /\ ask[c].pc = "modGenerating"
    /\ ask' = [ask EXCEPT ![c].pc = "done"]
    /\ outcome' = [outcome EXCEPT ![c] = AskRaised(message)]
    /\ UNCHANGED <<lastRequest, posted, lastFailure, tally>>
    /\ UNCHANGED registryVars
    /\ UNCHANGED callVars

\* the /query request of modifyChart answered: the regenerated statement is
\* executed on the database resolved at the start
ModifyGenerationSucceeds(c, response) ==
    /\ ask[c].pc = "modGenerating"
    /\ ask' = [ask EXCEPT ![c].pc = "modExecuting", ![c].sql = response.sql]
    /\ validateAndExecute(c, response.sql,
           mapGeneratedParams(response.params), ask[c].dbName,
           ask[c].tenantId)
    /\ UNCHANGED <<lastRequest, posted, lastFailure, tally, outcome>>
    /\ UNCHANGED registryVars

\* validateAndExecute has returned or raised in modifyChart: an error is
\* raised to the caller, without rows modifyChart returns, with rows the
\* chart request is posted
ModifyExecuted(c) ==
    /\ ask[c].pc = "modExecuting"
    /\ pc[c] = "idle"
    /\ IF result[c].status # "ok"
       THEN /\ ask' = [ask EXCEPT ![c].pc = "done"]
            /\ outcome' = [outcome EXCEPT ![c] = AskRaised(result[c].error)]
            /\ UNCHANGED <<lastRequest, posted>>
       ELSE IF result[c].rows = 0
       THEN /\ ask' = [ask EXCEPT ![c].pc = "done"]
            /\ outcome' = [outcome EXCEPT ![c] = ModifyReturned(NoRowsNotes)]
            /\ UNCHANGED <<lastRequest, posted>>
       ELSE /\ ask' = [ask EXCEPT ![c].pc = "modCharting"]
            /\ lastRequest' = [lastRequest EXCEPT ![c] =
                  [NoRequest EXCEPT !.path = ChartPath(ask[c].options),
                      !.rows = anonymizeResults(result[c].data)]]
            /\ posted' = [posted EXCEPT ![c].chart = @ + 1]
            /\ UNCHANGED outcome
    /\ UNCHANGED <<lastFailure, tally>>
    /\ UNCHANGED registryVars
    /\ UNCHANGED callVars

\* the chart request of modifyChart answered
ModifyChartSucceeds(c, notes) ==
    /\ ask[c].pc = "modCharting"
    /\ ask' = [ask EXCEPT ![c].pc = "done"]
    /\ outcome' = [outcome EXCEPT ![c] = ModifyReturned(notes)]
    /\ UNCHANGED <<lastRequest, posted, lastFailure, tally>>
    /\ UNCHANGED registryVars
    /\ UNCHANGED callVars

\* the chart request of modifyChart failed: modifyChart raises
ModifyChartFails(c, message) ==
    /\ ask[c].pc = "modCharting"
    /\ ask' = [ask EXCEPT ![c].pc = "done"]
    /\ outcome' = [outcome EXCEPT ![c] = AskRaised(message)]
    /\ UNCHANGED <<lastRequest, posted, lastFailure, tally>>
    /\ UNCHANGED registryVars
    /\ UNCHANGED callVars

(***************************************************************************)
(* The adapters called directly                                            *)
(***************************************************************************)

\* adapter.execute(sql, params) of call c up to its suspension: the
\* allow-list check, the parameter conversion, then the low-level function
AdapterExecute(c, adapter, sql, params) ==
    /\ pc[c] = "idle"
    /\ call[c].op = "none"
    /\ ask[c].pc = "idle"
    /\ LET denied == AdapterCheckTables(adapter, sql)
       IN  /\ call' = [call EXCEPT ![c] =
                          [NoCall EXCEPT !.op = "adapter.execute",
                              !.sql = sql, !.params = params,
                              !.finalSql = sql, !.finalParams = params,
                              !.adapter = adapter]]
           /\ adapterCalls' = [adapterCalls EXCEPT ![c] =
                 <<AdapterCall("execute", sql, params)>>]
           /\ IF denied # NoError
              THEN /\ clientCalls' = [clientCalls EXCEPT ![c] = <<>>]
                   /\ clientParams' = [clientParams EXCEPT ![c] = <<>>]
                   /\ result' = [result EXCEPT ![c] = Raised(denied)]
                   /\ pc' = pc
              ELSE /\ clientCalls' = [clientCalls EXCEPT ![c] = <<sql>>]
                   /\ clientParams' = [clientParams EXCEPT ![c] =
                         <<ClientArgs(adapter, params)>>]
                   /\ result' = [result EXCEPT ![c] = NoResult]
                   /\ pc' = [pc EXCEPT ![c] = "execute"]
    /\ introspection' = introspection
    /\ UNCHANGED registryVars
    /\ UNCHANGED askVars

\* adapter.validate(sql, params) of call c up to its suspension: no
\* allow-list check, the statement goes out behind EXPLAIN
AdapterValidate(c, adapter, sql, params) ==
    /\ pc[c] = "idle"
    /\ call[c].op = "none"
    /\ ask[c].pc = "idle"
    /\ call' = [call EXCEPT ![c] =
                   [NoCall EXCEPT !.op = "adapter.validate",
                       !.sql = sql, !.params = params,
                       !.finalSql = sql, !.finalParams = params,
                       !.adapter = adapter]]
    /\ adapterCalls' = [adapterCalls EXCEPT ![c] =
          <<AdapterCall("validate", sql, params)>>]
    /\ clientCalls' = [clientCalls EXCEPT ![c] = <<ExplainSql(sql)>>]
    /\ clientParams' = [clientParams EXCEPT ![c] =
          <<ClientArgs(adapter, params)>>]
    /\ result' = [result EXCEPT ![c] = NoResult]
    /\ pc' = [pc EXCEPT ![c] = "explain"]
    /\ introspection' = introspection
    /\ UNCHANGED registryVars
    /\ UNCHANGED askVars

\* the EXPLAIN statement of a direct adapter.validate was answered:
\* validate resolves, or rejects with the database's error
ExplainAnswered(c, error) ==
    /\ pc[c] = "explain"
    /\ result' = [result EXCEPT ![c] =
                     IF error = NoError THEN Returned(0) ELSE Raised(error)]
    /\ pc' = [pc EXCEPT ![c] = "idle"]
    /\ UNCHANGED <<call, adapterCalls, clientCalls, clientParams, introspection>>
    /\ UNCHANGED registryVars
    /\ UNCHANGED askVars

\* IntrospectOptions: tables absent, or a list of names
NoTables == [given |-> FALSE, tables |-> <<>>]

TableList(tables) == [given |-> TRUE, tables |-> tables]

\* options?.tables ? normalizeTableFilter(options.tables) :
\* this.allowedTables, then ?? []: the adapter's allow-list is used only
\* when the caller names no tables
TablesToIntrospect(adapter, options) ==
    IF options.given
    THEN IF adapter.dialect = "postgres"
         THEN PgNormalizeTableFilter(options.tables, DefaultSchema)
         ELSE ChNormalizeTableFilter(options.tables)
    ELSE adapter.allowedTables

\* tables.map(clause).join(" OR ")
RECURSIVE JoinClauses(_, _, _, _)
JoinClauses(tables, i, schemaExpr, tableExpr) ==
    IF i > Len(tables) THEN ""
    ELSE LET parts == SplitTable(tables[i], DefaultSchema)
         IN  (IF i > 1 THEN " OR " ELSE "")
             \o "(" \o schemaExpr \o " = '" \o parts.schema \o "' AND "
             \o tableExpr \o " = '" \o parts.table \o "')"
             \o JoinClauses(tables, i + 1, schemaExpr, tableExpr)

buildFilterClause(tables, schemaExpr, tableExpr) ==
    IF Len(tables) = 0 THEN ""
    ELSE "AND (" \o JoinClauses(tables, 1, schemaExpr, tableExpr) \o ")"

\* the catalog statements, their select lists shortened
buildTablesQuery(tables) ==
    "SELECT c.relname AS table_name, n.nspname AS schema_name FROM pg_class c JOIN pg_namespace n ON n.oid = c.relnamespace WHERE n.nspname NOT IN ('pg_catalog', 'information_schema') AND c.relkind IN ('r', 'v', 'm') "
    \o buildFilterClause(tables, "n.nspname", "c.relname")
    \o " ORDER BY n.nspname, c.relname;"

buildColumnsQuery(tables) ==
    "SELECT cols.table_name, cols.table_schema, cols.column_name FROM information_schema.columns cols WHERE cols.table_schema NOT IN ('pg_catalog', 'information_schema') "
    \o buildFilterClause(tables, "cols.table_schema", "cols.table_name")
    \o " ORDER BY cols.table_schema, cols.table_name, cols.ordinal_position;"

ChTablesQuery(hasFilter) ==
    "SELECT name, engine, comment, primary_key FROM system.tables WHERE database = {db:String}"
    \o (IF hasFilter THEN " AND name IN {tables:Array(String)}" ELSE "")
    \o " ORDER BY name"

ChColumnsQuery(hasFilter) ==
    "SELECT table, name, type, position, comment, is_in_primary_key FROM system.columns WHERE database = {db:String}"
    \o (IF hasFilter THEN " AND table IN {tables:Array(String)}" ELSE "")
    \o " ORDER BY table, position"

\* options.database ?? "default"
ChDatabaseName == "default"

\* queryParams of the columnar catalog statements
ChQueryParams(tables) ==
    IF Len(tables) > 0
    THEN [kind |-> "named",
          values |-> [db |-> ChDatabaseName, tables |-> tables]]
    ELSE [kind |-> "named", values |-> [db |-> ChDatabaseName]]

\* the statement and the parameters of the catalog request for step
IntrospectRequest(adapter, tables, step) ==
    IF adapter.dialect = "postgres"
    THEN [sql |-> IF step = "tables" THEN buildTablesQuery(tables)
                  ELSE buildColumnsQuery(tables),
          args |-> NoClientArgs]
    ELSE [sql |-> IF step = "tables" THEN ChTablesQuery(Len(tables) > 0)
                  ELSE ChColumnsQuery(Len(tables) > 0),
          args |-> ChQueryParams(tables)]

\* the tables the database holds, as the catalog names them
Catalog(adapter) ==
    IF adapter.dialect = "postgres"
    THEN {"public.users", "public.orders", "public.secrets"}
    ELSE {"users", "events", "secrets"}

\* the rows the database answers a catalog statement with: every table of
\* the catalog when there is no filter, else the filtered ones
CatalogRows(adapter, tables) ==
    IF Len(tables) = 0 THEN Catalog(adapter)
    ELSE Catalog(adapter) \cap SeqToSet(tables)

\* adapter.introspect(options) of call c up to its first suspension
Introspect(c, adapter, options) ==
    /\ pc[c] = "idle"
    /\ call[c].op = "none"
    /\ ask[c].pc = "idle"
    /\ LET tables == TablesToIntrospect(adapter, options)
           request == IntrospectRequest(adapter, tables, "tables")
       IN  /\ call' = [call EXCEPT ![c] =
                          [NoCall EXCEPT !.op = "adapter.introspect",
                              !.params = options, !.finalParams = options,
                              !.adapter = adapter]]
           /\ clientCalls' = [clientCalls EXCEPT ![c] = <<request.sql>>]
           /\ clientParams' = [clientParams EXCEPT ![c] = <<request.args>>]
    /\ adapterCalls' = [adapterCalls EXCEPT ![c] = <<>>]
    /\ introspection' = [introspection EXCEPT ![c] = NoIntrospection]
    /\ result' = [result EXCEPT ![c] = NoResult]
    /\ pc' = [pc EXCEPT ![c] = "introspectTables"]
    /\ UNCHANGED registryVars
    /\ UNCHANGED askVars

\* the tables statement was answered: the rows are kept and the columns
\* statement goes out with the same filter
TablesAnswered(c) ==
    /\ pc[c] = "introspectTables"
    /\ LET tables == TablesToIntrospect(call[c].adapter, call[c].params)
           request == IntrospectRequest(call[c].adapter, tables, "columns")
       IN  /\ introspection' = [introspection EXCEPT ![c] =
                 [status |-> "pending",
                  tables |-> CatalogRows(call[c].adapter, tables)]]
           /\ clientCalls' = [clientCalls EXCEPT ![c] =
                 Append(@, request.sql)]
           /\ clientParams' = [clientParams EXCEPT ![c] =
                 Append(@, request.args)]
    /\ pc' = [pc EXCEPT ![c] = "introspectColumns"]
    /\ UNCHANGED <<call, adapterCalls, result>>
    /\ UNCHANGED registryVars
    /\ UNCHANGED askVars

\* the columns statement was answered: introspect returns the tables
ColumnsAnswered(c) ==
    /\ pc[c] = "introspectColumns"
    /\ introspection' = [introspection EXCEPT ![c].status = "returned"]
    /\ result' = [result EXCEPT ![c] =
                     Returned(Cardinality(introspection[c].tables))]
    /\ pc' = [pc EXCEPT ![c] = "idle"]
    /\ UNCHANGED <<call, adapterCalls, clientCalls, clientParams>>
    /\ UNCHANGED registryVars
    /\ UNCHANGED askVars

\* a catalog statement failed: introspect raises the database's error
IntrospectFails(c, message) ==
    /\ pc[c] \in {"introspectTables", "introspectColumns"}
    /\ introspection' = [introspection EXCEPT ![c] = NoIntrospection]
    /\ result' = [result EXCEPT ![c] = Raised(message)]
    /\ pc' = [pc EXCEPT ![c] = "idle"]
    /\ UNCHANGED <<call, adapterCalls, clientCalls, clientParams>>
    /\ UNCHANGED registryVars
    /\ UNCHANGED askVars

(***************************************************************************)
(* syncSchema and the chart routes                                         *)
(***************************************************************************)

\* the options of a route that matter here: the per-call tenant
RouteOptions(tenantId) == [NoOptions EXCEPT !.tenantId = tenantId]

\* the locals of a route operation after resolveTenantId
RouteLocals(defaultTenantId, tenantId) ==
    [NoAsk EXCEPT !.options = RouteOptions(tenantId),
                  !.defaultTenantId = defaultTenantId,
                  !.tenantId = resolveTenantId(defaultTenantId, tenantId)]

\* the route operation of call c raises before anything was sent
RouteRaisesAtStart(c, locals, message) ==
    /\ ask' = [ask EXCEPT ![c] = [locals EXCEPT !.pc = "done"]]
    /\ outcome' = [outcome EXCEPT ![c] = AskRaised(message)]
    /\ UNCHANGED <<lastRequest, posted, lastFailure, tally>>
    /\ UNCHANGED callVars

\* syncSchema(client, queryEngine, databaseName, options) up to its first
\* suspension: tenant, adapter and metadata, then adapter.introspect
SyncSchemaStart(c, defaultTenantId, databaseName, tenantId, tables) ==
    /\ ask[c].pc = "idle"
    /\ call[c].op = "none"
    /\ pc[c] = "idle"
    /\ LET locals == RouteLocals(defaultTenantId, tenantId)
       IN  IF ~Truthy(locals.tenantId)
           THEN RouteRaisesAtStart(c, locals, TenantRequiredMessage)
           ELSE IF ~HasDatabase(databaseName)
           THEN RouteRaisesAtStart(c, locals, GetDatabaseError(databaseName))
           ELSE LET adapter == getDatabase(databaseName)
                    listed == TablesToIntrospect(adapter, tables)
                    request == IntrospectRequest(adapter, listed, "tables")
                IN  /\ ask' = [ask EXCEPT ![c] =
                                  [locals EXCEPT !.pc = "syncIntrospecting",
                                                 !.dbName = databaseName]]
                    /\ call' = [call EXCEPT ![c] =
                          [NoCall EXCEPT !.op = "adapter.introspect",
                              !.params = tables, !.finalParams = tables,
                              !.databaseName = databaseName,
                              !.adapter = adapter,
                              !.metadata = getDatabaseMetadata(databaseName)]]
                    /\ clientCalls' = [clientCalls EXCEPT ![c] =
                                          <<request.sql>>]
                    /\ clientParams' = [clientParams EXCEPT ![c] =
                                           <<request.args>>]
                    /\ pc' = [pc EXCEPT ![c] = "introspectTables"]
                    /\ UNCHANGED <<adapterCalls, introspection, result>>
                    /\ UNCHANGED <<lastRequest, posted, lastFailure, tally,
                                   outcome>>
    /\ UNCHANGED registryVars

\* adapter.introspect has returned or raised in syncSchema: the schema is
\* posted to /ingest, an error is raised to the caller
SyncIntrospected(c) ==
    /\ ask[c].pc = "syncIntrospecting"
    /\ pc[c] = "idle"
    /\ IF result[c].status = "ok"
       THEN /\ ask' = [ask EXCEPT ![c].pc = "syncPosting"]
            /\ lastRequest' = [lastRequest EXCEPT ![c] =
                  [NoRequest EXCEPT !.path = "/ingest",
                                    !.database = ask[c].dbName]]
            /\ posted' = [posted EXCEPT ![c].other = @ + 1]
            /\ UNCHANGED outcome
       ELSE /\ ask' = [ask EXCEPT ![c].pc = "done"]
            /\ outcome' = [outcome EXCEPT ![c] = AskRaised(result[c].error)]
            /\ UNCHANGED <<lastRequest, posted>>
    /\ UNCHANGED <<lastFailure, tally>>
    /\ UNCHANGED registryVars
    /\ UNCHANGED callVars

\* the /ingest request answered or failed
IngestAnswered(c, error) ==
    /\ ask[c].pc = "syncPosting"
    /\ ask' = [ask EXCEPT ![c].pc = "done"]
    /\ outcome' = [outcome EXCEPT ![c] =
                      IF error = NoError THEN AskReturned(0, Undefined)
                      ELSE AskRaised(error)]
    /\ UNCHANGED <<lastRequest, posted, lastFailure, tally>>
    /\ UNCHANGED registryVars
    /\ UNCHANGED callVars

\* a chart or active-chart operation: its request, and whether it runs the
\* chart's statement afterwards to fill in the data
ChartRoute(name, path, hydrates) ==
    [name |-> name, path |-> path, hydrates |-> hydrates]

\* createChart, listCharts, ... deleteActiveChart up to the request: the
\* tenant is resolved, then the one request is sent
ChartRouteStart(c, defaultTenantId, route, tenantId) ==
    /\ ask[c].pc = "idle"
    /\ call[c].op = "none"
    /\ LET locals == RouteLocals(defaultTenantId, tenantId)
       IN  IF ~Truthy(locals.tenantId)
           THEN RouteRaisesAtStart(c, locals, TenantRequiredMessage)
           ELSE /\ ask' = [ask EXCEPT ![c] =
                              [locals EXCEPT !.pc =
                                  IF route.hydrates THEN "routeFetching"
                                  ELSE "routeRequesting"]]
                /\ lastRequest' = [lastRequest EXCEPT ![c] =
                      [NoRequest EXCEPT !.path = route.path]]
                /\ posted' = [posted EXCEPT ![c].other = @ + 1]
                /\ UNCHANGED <<lastFailure, tally, outcome>>
                /\ UNCHANGED callVars
    /\ UNCHANGED registryVars

\* the request of a chart route answered with chart: the operation returns,
\* or executeChartQuery runs the chart's statement through
\* validateAndExecute when a database can be named
ChartRouteAnswered(c, chart) ==
    /\ ask[c].pc \in {"routeRequesting", "routeFetching"}
    /\ LET databaseName == Coalesce(chart.target_db, getDefaultDatabase)
       IN  IF ask[c].pc = "routeRequesting" \/ ~Truthy(databaseName)
           THEN /\ ask' = [ask EXCEPT ![c].pc = "done"]
                /\ outcome' = [outcome EXCEPT ![c] =
                                  AskReturned(0, Undefined)]
                /\ UNCHANGED callVars
           ELSE /\ ask' = [ask EXCEPT ![c].pc = "routeHydrating",
                                      ![c].sql = chart.sql,
                                      ![c].dbName = databaseName]
                /\ validateAndExecute(c, chart.sql, NoParams, databaseName,
                                      ask[c].tenantId)
                /\ UNCHANGED outcome
    /\ UNCHANGED <<lastRequest, posted, lastFailure, tally>>
    /\ UNCHANGED registryVars

\* the request of a chart route failed: the operation raises
ChartRouteFails(c, message) ==
    /\ ask[c].pc \in {"routeRequesting", "routeFetching"}
    /\ ask' = [ask EXCEPT ![c].pc = "done"]
    /\ outcome' = [outcome EXCEPT ![c] = AskRaised(message)]
    /\ UNCHANGED <<lastRequest, posted, lastFailure, tally>>
    /\ UNCHANGED registryVars
    /\ UNCHANGED callVars

\* executeChartQuery is over: rows or, after a caught failure, no rows
ChartHydrated(c) ==
    /\ ask[c].pc = "routeHydrating"
    /\ pc[c] = "idle"
    /\ ask' = [ask EXCEPT ![c].pc = "done"]
    /\ outcome' = [outcome EXCEPT ![c] = AskReturned(0, Undefined)]
    /\ UNCHANGED <<lastRequest, posted, lastFailure, tally>>
    /\ UNCHANGED registryVars
    /\ UNCHANGED callVars

(***************************************************************************)
(* Specifications                                                          *)
(***************************************************************************)

IdleCalls(calls) ==
    /\ pc = [c \in calls |-> "idle"]
    /\ call = [c \in calls |-> NoCall]
    /\ adapterCalls = [c \in calls |-> <<>>]
    /\ clientCalls = [c \in calls |-> <<>>]
    /\ clientParams = [c \in calls |-> <<>>]
    /\ introspection = [c \in calls |-> NoIntrospection]
    /\ result = [c \in calls |-> NoResult]
    /\ ask = [c \in calls |-> NoAsk]
    /\ lastRequest = [c \in calls |-> NoRequest]
    /\ posted = [c \in calls |-> NoPosted]
    /\ lastFailure = [c \in calls |-> NoFailure]
    /\ tally = [c \in calls |-> NoTally]
    /\ outcome = [c \in calls |-> NoOutcome]

\* A new QueryEngine; the application attaches its databases (setup) and
\* then makes one call.
Init ==
    /\ databases = <<>>
    /\ databaseMetadata = <<>>
    /\ defaultDatabase = Undefined
    /\ IdleCalls({1})

SetupTime == \A c \in Calls : call[c].op = "none" /\ ask[c].pc = "idle"

Next ==
    \/ \E name \in DbNames, a \in Attachments :
          SetupTime /\ attachDatabase(name, a.adapter, a.metadata)
    \/ \E c \in Calls, sql \in SqlTexts, params \in ParamRecords,
          databaseName \in DbNames, tenantId \in TenantIds :
          CallValidateAndExecute(c, sql, params, databaseName, tenantId)
    \/ \E c \in Calls, sql \in SqlTexts, databaseName \in DbNames \cup {Undefined} :
          execute(c, sql, NoParams, databaseName)
    \/ \E c \in Calls, message \in ClientErrors : ValidateFails(c, message)
    \/ \E c \in Calls : ValidateSucceeds(c)
    \/ \E c \in Calls, rows \in RowCounts : ExecuteSucceeds(c, rows)
    \/ \E c \in Calls, message \in ClientErrors : ExecuteFails(c, message)

Spec == Init /\ [][Next]_vars

\* The registries ask runs against: none, one and two attached databases.
AskRegistries ==
    { <<>>,
      <<[name |-> "db1",
         adapter |-> PostgresAdapter(AllowList(<<"public.users", "orders">>)),
         metadata |-> Metadata("postgres", "tenant_id", Undefined, "true")]>>,
      <<[name |-> "db1",
         adapter |-> ClickHouseAdapter(NoAllowList),
         metadata |-> Metadata("clickhouse", Undefined, Undefined, Undefined)],
        [name |-> "db2",
         adapter |-> PostgresAdapter(AllowList(<<"public.users", "orders">>)),
         metadata |-> Metadata("postgres", "tenant_id", Undefined, "true")]>> }

\* the registry after the attachDatabase calls of attached, in order
AttachedDatabases(attached) ==
    [n \in {attached[i].name : i \in 1..Len(attached)} |->
        LET last == CHOOSE i \in 1..Len(attached) :
                        /\ attached[i].name = n
                        /\ \A j \in (i + 1)..Len(attached) : attached[j].name # n
        IN  attached[last]]

MaxRetryOptions ==
    {[given |-> FALSE, value |-> 0]}
    \cup {[given |-> TRUE, value |-> n] : n \in (0 - 1)..MaxRetryBound}

AskOptionSets ==
    { AskOptions(tenantId, m.given, m.value, database, hint[1], hint[2],
                 chartType) :
        tenantId \in {Undefined, "t-123"},
        m \in MaxRetryOptions,
        database \in {Undefined, "db2"},
        hint \in {<<Undefined, Undefined>>,
                  <<"earlier error", "SELECT 0">>},
        chartType \in {Undefined, "vizspec"} }

DefaultTenantIds == {Undefined, "t-9"}

\* what the generation service can answer
GeneratedResponses ==
    { [sql |-> "SELECT * FROM users", database |-> Undefined,
       params |-> <<>>],
      [sql |-> "SELECT * FROM secrets", database |-> "db1",
       params |-> <<ParamDescriptor(" {n} ", Undefined, NoPosition, "5"),
                    ParamDescriptor(Undefined, "$2", 2, "x"),
                    ParamDescriptor(Undefined, Undefined, NoPosition,
                                    Undefined)>>],
      [sql |-> "", database |-> Undefined, params |-> <<>>] }

ServiceErrors == {"HTTP 500"}

ChartNotes == {Undefined}

InitAsk ==
    /\ \E attached \in AskRegistries :
          /\ databases =
                [n \in DOMAIN AttachedDatabases(attached) |->
                    AttachedDatabases(attached)[n].adapter]
          /\ databaseMetadata =
                [n \in DOMAIN AttachedDatabases(attached) |->
                    AttachedDatabases(attached)[n].metadata]
          /\ defaultDatabase =
                IF Len(attached) = 0 THEN Undefined ELSE attached[1].name
    /\ IdleCalls({1})

NextAsk ==
    \/ \E c \in Calls, defaultTenantId \in DefaultTenantIds,
          options \in AskOptionSets :
          AskStart(c, defaultTenantId, options)
    \/ \E c \in Calls, message \in ServiceErrors : GenerationFails(c, message)
    \/ \E c \in Calls, response \in GeneratedResponses :
          GenerationSucceeds(c, response)
    \/ \E c \in Calls, message \in ClientErrors : ValidateFails(c, message)
    \/ \E c \in Calls : ValidateSucceeds(c)
    \/ \E c \in Calls, rows \in RowCounts : ExecuteSucceeds(c, rows)
    \/ \E c \in Calls, message \in ClientErrors : ExecuteFails(c, message)
    \/ \E c \in Calls : AskExecuted(c)
    \/ \E c \in Calls, notes \in ChartNotes : ChartSucceeds(c, notes)
    \/ \E c \in Calls, message \in ServiceErrors : ChartFails(c, message)

SpecAsk == InitAsk /\ [][NextAsk]_vars

\* two ask calls in flight at once on one QueryEngine and one client
ConcurrentOptionSets ==
    { AskOptions("t-123", m.given, m.value, Undefined, hint[1], hint[2],
                 Undefined) :
        m \in {[given |-> FALSE, value |-> 0], [given |-> TRUE, value |-> 1]},
        hint \in {<<Undefined, Undefined>>,
                  <<"earlier error", "SELECT 0">>} }

InitConcurrent ==
    /\ LET attached == AttachedDatabases(
               <<[name |-> "db1",
                  adapter |-> PostgresAdapter(AllowList(<<"public.users">>)),
                  metadata |-> Metadata("postgres", Undefined, Undefined,
                                        Undefined)]>>)
       IN  /\ databases = [n \in DOMAIN attached |-> attached[n].adapter]
           /\ databaseMetadata =
                 [n \in DOMAIN attached |-> attached[n].metadata]
           /\ defaultDatabase = "db1"
    /\ IdleCalls({1, 2})

NextConcurrent ==
    \/ \E c \in Calls, options \in ConcurrentOptionSets :
          AskStart(c, Undefined, options)
    \/ \E c \in Calls, message \in ServiceErrors : GenerationFails(c, message)
    \/ \E c \in Calls, response \in GeneratedResponses :
          GenerationSucceeds(c, response)
    \/ \E c \in Calls, message \in ClientErrors : ValidateFails(c, message)
    \/ \E c \in Calls : ValidateSucceeds(c)
    \/ \E c \in Calls, rows \in RowCounts : ExecuteSucceeds(c, rows)
    \/ \E c \in Calls, message \in ClientErrors : ExecuteFails(c, message)
    \/ \E c \in Calls : AskExecuted(c)
    \/ \E c \in Calls, notes \in ChartNotes : ChartSucceeds(c, notes)
    \/ \E c \in Calls, message \in ServiceErrors : ChartFails(c, message)

SpecConcurrent == InitConcurrent /\ [][NextConcurrent]_vars

\* ask with a caller who may cancel
NextCancel ==
    \/ NextAsk
    \/ \E c \in Calls : Abort(c)
    \/ \E c \in Calls : GenerationFails(c, AbortMessage)
    \/ \E c \in Calls : ChartFails(c, AbortMessage)

SpecCancel == InitAsk /\ [][NextCancel]_vars

\* the adapters the application builds and calls directly
AdapterSet ==
    { PostgresAdapter(NoAllowList),
      PostgresAdapter(AllowList(<<"users">>)),
      ClickHouseAdapter(AllowList(<<"users">>)) }

AdapterSqlTexts ==
    { "SELECT * FROM users WHERE id = $1", "SELECT * FROM secrets" }

\* named-parameter mappings handed to the adapters
ParamMappings ==
    { NoParams,
      ("1" :> "a") @@ ("2" :> "b") @@ ("name" :> "c"),
      ("2" :> "b") @@ ("10" :> "j") @@ ("1" :> "a"),
      ("1" :> "<tenant_id>") @@ ("tenant_id" :> "t-123"),
      ("1" :> "<missing>") @@ ("n" :> "5"),
      ("b" :> "x") @@ ("B" :> "y") @@ ("a" :> "z") @@ ("_c" :> "w"),
      ("01" :> "a"),
      ("01" :> "a") @@ ("1" :> "b"),
      ("1" :> "<toString>") }

\* what the application passes to introspect
IntrospectOptionSets ==
    { NoTables, TableList(<<>>), TableList(<<"users">>),
      TableList(<<"secrets">>), TableList(<<"users", "public.orders">>) }

InitAdapter ==
    /\ databases = <<>>
    /\ databaseMetadata = <<>>
    /\ defaultDatabase = Undefined
    /\ IdleCalls({1})

NextAdapter ==
    \/ \E c \in Calls, adapter \in AdapterSet, sql \in AdapterSqlTexts,
          params \in ParamMappings :
          AdapterExecute(c, adapter, sql, params)
    \/ \E c \in Calls, adapter \in AdapterSet, sql \in AdapterSqlTexts,
          params \in ParamMappings :
          AdapterValidate(c, adapter, sql, params)
    \/ \E c \in Calls, error \in ClientErrors \cup {NoError} :
          ExplainAnswered(c, error)
    \/ \E c \in Calls, adapter \in AdapterSet, options \in IntrospectOptionSets :
          Introspect(c, adapter, options)
    \/ \E c \in Calls : TablesAnswered(c)
    \/ \E c \in Calls : ColumnsAnswered(c)
    \/ \E c \in Calls, message \in ClientErrors : IntrospectFails(c, message)
    \/ \E c \in Calls, rows \in RowCounts : ExecuteSucceeds(c, rows)
    \/ \E c \in Calls, message \in ClientErrors : ExecuteFails(c, message)

SpecAdapter == InitAdapter /\ [][NextAdapter]_vars

ModifyInputs ==
    { ModifyInput("SELECT * FROM users", params, database, mods[1], mods[2]) :
        params \in ParamRecords,
        database \in {Undefined, "db2"},
        mods \in {<<FALSE, Undefined>>, <<TRUE, Undefined>>,
                  <<TRUE, "">>, <<TRUE, "SELECT * FROM orders">>} }

ModifyOptionSets ==
    { AskOptions(tenantId, FALSE, 0, Undefined, Undefined, Undefined,
                 chartType) :
        tenantId \in {Undefined, "t-123"},
        chartType \in {Undefined, "vizspec"} }

NextModify ==
    \/ \E c \in Calls, defaultTenantId \in DefaultTenantIds,
          input \in ModifyInputs, options \in ModifyOptionSets :
          ModifyStart(c, defaultTenantId, input, options)
    \/ \E c \in Calls, message \in ServiceErrors :
          ModifyGenerationFails(c, message)
    \/ \E c \in Calls, response \in GeneratedResponses :
          ModifyGenerationSucceeds(c, response)
    \/ \E c \in Calls : ModifyExecuted(c)
    \/ \E c \in Calls, notes \in ChartNotes : ModifyChartSucceeds(c, notes)
    \/ \E c \in Calls, message \in ServiceErrors : ModifyChartFails(c, message)

\* the chart and active-chart operations
ChartRoutes ==
    { ChartRoute("createChart", "/charts", FALSE),
      ChartRoute("listCharts", "/charts", FALSE),
      ChartRoute("listCharts", "/charts", TRUE),
      ChartRoute("getChart", "/charts/1", TRUE),
      ChartRoute("updateChart", "/charts/1", FALSE),
      ChartRoute("deleteChart", "/charts/1", FALSE),
      ChartRoute("createActiveChart", "/active-charts", FALSE),
      ChartRoute("listActiveCharts", "/active-charts", FALSE),
      ChartRoute("getActiveChart", "/active-charts/1", FALSE),
      ChartRoute("updateActiveChart", "/active-charts/1", FALSE),
      ChartRoute("deleteActiveChart", "/active-charts/1", FALSE) }

\* the per-call tenant of a route operation
RouteTenantIds == {Undefined, "", "t-123"}

\* the saved charts the service can answer with
SavedCharts ==
    { [sql |-> "SELECT * FROM users", target_db |-> Undefined],
      [sql |-> "SELECT * FROM secrets", target_db |-> "db9"] }

NextSync ==
    \/ \E c \in Calls, defaultTenantId \in DefaultTenantIds,
          databaseName \in {"db1", "db9"}, tenantId \in RouteTenantIds,
          tables \in {NoTables, TableList(<<"users">>)} :
          SyncSchemaStart(c, defaultTenantId, databaseName, tenantId, tables)
    \/ \E c \in Calls : TablesAnswered(c)
    \/ \E c \in Calls : ColumnsAnswered(c)
    \/ \E c \in Calls, message \in ClientErrors : IntrospectFails(c, message)
    \/ \E c \in Calls : SyncIntrospected(c)
    \/ \E c \in Calls, error \in ServiceErrors \cup {NoError} :
          IngestAnswered(c, error)

NextCharts ==
    \/ \E c \in Calls, defaultTenantId \in DefaultTenantIds,
          route \in ChartRoutes, tenantId \in RouteTenantIds :
          ChartRouteStart(c, defaultTenantId, route, tenantId)
    \/ \E c \in Calls, chart \in SavedCharts : ChartRouteAnswered(c, chart)
    \/ \E c \in Calls, message \in ServiceErrors : ChartRouteFails(c, message)
    \/ \E c \in Calls : ChartHydrated(c)

\* one call of a route operation against an attached registry
NextRoutes == NextAsk \/ NextModify \/ NextSync \/ NextCharts

SpecRoutes == InitAsk /\ [][NextRoutes]_vars

\* names the application attaches databases under; the empty name is a
\* string like any other to attachDatabase
RegistryNames == {"db1", "db2", ""}

RegistryAttachments ==
    { [adapter |-> PostgresAdapter(NoAllowList),
       metadata |-> Metadata("postgres", "tenant_id", Undefined, "true")],
      [adapter |-> ClickHouseAdapter(AllowList(<<"users">>)),
       metadata |-> Metadata("clickhouse", Undefined, Undefined, Undefined)] }

RegistrySqlTexts == {"SELECT * FROM users"}

\* a new QueryEngine on which attachments, lookups and executions follow
\* each other in any order
NextRegistry ==
    \/ \E name \in RegistryNames, a \in RegistryAttachments :
          attachDatabase(name, a.adapter, a.metadata)
    \/ \E c \in Calls, sql \in RegistrySqlTexts,
          databaseName \in RegistryNames :
          CallValidateAndExecute(c, sql, NoParams, databaseName, "t-123")
    \/ \E c \in Calls, sql \in RegistrySqlTexts,
          databaseName \in RegistryNames \cup {Undefined} :
          execute(c, sql, NoParams, databaseName)
    \/ \E c \in Calls, message \in ClientErrors : ValidateFails(c, message)
    \/ \E c \in Calls : ValidateSucceeds(c)
    \/ \E c \in Calls, rows \in RowCounts : ExecuteSucceeds(c, rows)
    \/ \E c \in Calls, message \in ClientErrors : ExecuteFails(c, message)

SpecRegistry == Init /\ [][NextRegistry]_vars

(***************************************************************************)
(* Properties                                                              *)
(***************************************************************************)

\* the tenant field is configured and enforcement is not disabled
Enforced(metadata) ==
    Truthy(metadata.tenantFieldName)
    /\ metadata.enforceTenantIsolation # "false"

\* call c is a validateAndExecute that found its database
Dispatched(c) ==
    call[c].op = "validateAndExecute" /\ Len(adapterCalls[c]) > 0

MentionsField(sql, metadata) ==
    Includes(ToLowerCase(sql), ToLowerCase(metadata.tenantFieldName))

\* the word where, in any case, stands at position w of sql
IsWhereAt(sql, w) ==
    /\ w >= 1
    /\ w + 4 <= Len(sql)
    /\ ToLowerCase(SubSeq(sql, w, w + 4)) = "where"
    /\ ~IsWordChar(CharAt(sql, w - 1))
    /\ ~IsWordChar(CharAt(sql, w + 5))

WherePositions(sql) == {w \in 1..Len(sql) : IsWhereAt(sql, w)}

\* the equality that scopes a statement to tenantId: the quoted literal for
\* the relational dialect, the typed placeholder for the columnar one
ScopingPredicate(metadata, tenantId) ==
    IF metadata.dialect = "clickhouse"
    THEN metadata.tenantFieldName \o " = {" \o metadata.tenantFieldName
         \o ":" \o Coalesce(metadata.tenantFieldType, "String") \o "}"
    ELSE metadata.tenantFieldName \o " = '" \o tenantId \o "'"

HasParam(params, key, value) == key \in DOMAIN params /\ params[key] = value

\* sql with params restricts the tenant field to tenantId
RestrictsTenant(sql, params, metadata, tenantId) ==
    /\ Includes(sql, ScopingPredicate(metadata, tenantId))
    /\ metadata.dialect = "clickhouse" =>
          HasParam(params, metadata.tenantFieldName, tenantId)

\* C1: on a database with a tenant field and enforcement not disabled, the
\* SQL handed to adapter.validate and adapter.execute restricts the tenant
\* field to the calling tenant, whatever the input SQL is.
C1_TenantScoped ==
    \A c \in Calls :
        Dispatched(c) /\ Enforced(call[c].metadata) =>
            \A i \in 1..Len(adapterCalls[c]) :
                RestrictsTenant(adapterCalls[c][i].sql,
                                adapterCalls[c][i].params,
                                call[c].metadata, call[c].tenantId)

\* adapter.execute was invoked in call c
ExecuteInvoked(c) ==
    /\ Len(adapterCalls[c]) > 0
    /\ adapterCalls[c][Len(adapterCalls[c])].method = "execute"

\* the statement adapter.execute was given went to the low-level function
ExecuteReached(c) ==
    /\ ExecuteInvoked(c)
    /\ Len(clientCalls[c]) > 0
    /\ clientCalls[c][Len(clientCalls[c])] =
          adapterCalls[c][Len(adapterCalls[c])].sql

\* the sql adapter.execute was given in call c
ExecutedSql(c) == adapterCalls[c][Len(adapterCalls[c])].sql

\* The allow-list as configured: each entry of options.allowedTables,
\* a bare name resolved to the default schema (relational) or the name
\* after the last dot (columnar).
ConfiguredTables(adapter) ==
    { LET parts == SplitTable(Trim(adapter.options.tables[i]), DefaultSchema)
      IN  IF adapter.dialect = "postgres"
          THEN tableKey(parts.schema, parts.table)
          ELSE parts.table
      : i \in 1..Len(adapter.options.tables) }

\* the references the adapter extracts from sql after FROM/JOIN
ExtractedTables(adapter, sql) ==
    IF adapter.dialect = "postgres"
    THEN SeqToSet(PgRefKeys(sql, DefaultSchema))
    ELSE SeqToSet(ChRefKeys(sql))

HasAllowList(adapter) ==
    adapter.options.given /\ Len(adapter.options.tables) > 0

\* C2: with a non-empty allow-list execute reaches the low-level function
\* iff every extracted table reference is a member of the allow-list;
\* with the allow-list unset or empty it always reaches it.
C2_AllowListIff ==
    \A c \in Calls :
        ExecuteInvoked(c) =>
            IF HasAllowList(call[c].adapter)
            THEN ExecuteReached(c) <=>
                    ExtractedTables(call[c].adapter, ExecutedSql(c))
                        \subseteq ConfiguredTables(call[c].adapter)
            ELSE ExecuteReached(c)

\* ask call c has ended, it had a tenant and a budget of at least zero,
\* every /query request was answered, every answer was executed and every
\* execution failed
AllExecutionsFailed(c) ==
    /\ ask[c].pc = "done"
    /\ Truthy(ask[c].tenantId)
    /\ ask[c].maxRetry >= 0
    /\ tally[c].generationFailed = 0
    /\ tally[c].attempts = tally[c].generated
    /\ tally[c].executionFailed = tally[c].attempts
    /\ tally[c].attempts >= 1

\* C3: with maxRetry = N >= 0 (omitted counts as 0), every generation
\* request answered and every execution attempt failing, ask posts exactly
\* N + 1 /query requests and raises the error of the last failed attempt.
C3_RetryBudget ==
    \A c \in Calls :
        AllExecutionsFailed(c) =>
            /\ posted[c].query = ask[c].maxRetry + 1
            /\ posted[c].chart = 0
            /\ result[c].status = "error"
            /\ outcome[c] = AskRaised(result[c].error)

C3_Witness ==
    \E c \in Calls :
        /\ AllExecutionsFailed(c)
        /\ ask[c].options.maxRetryGiven
        /\ ask[c].maxRetry = MaxRetryBound
        /\ tally[c].executionFailed = MaxRetryBound + 1
        /\ outcome[c] = AskRaised("relation does not exist")

\* the step of call c from a failed execution attempt to the next /query
\* request
RetriesAfterFailure(c) ==
    /\ ask[c].pc = "executing"
    /\ result[c].status = "error"
    /\ ask'[c].pc = "generating"

\* how a hint travels in the request: an empty text is left out
HintOf(text) == IF text = "" THEN Undefined ELSE text

\* C4 as stated: after a failed execution attempt with budget left, the
\* next /query request carries the error message of that attempt as
\* last_error and the SQL that failed as previous_sql.
C4_HintsCarried ==
    [][\A c \in Calls :
          RetriesAfterFailure(c) =>
              /\ lastRequest'[c].last_error = result[c].error
              /\ lastRequest'[c].previous_sql = call[c].sql]_vars

\* C4 amended: after a failed execution attempt with budget left, the
\* next /query request carries the error message of that attempt as
\* last_error when the message is not empty, and the generated SQL of that
\* attempt as previous_sql when it is not empty; an empty message or SQL is
\* left out of the request. Hints of earlier attempts are never carried.
C4_NonEmptyHintsCarried ==
    [][\A c \in Calls :
          RetriesAfterFailure(c) =>
              /\ lastRequest'[c].last_error = HintOf(result[c].error)
              /\ lastRequest'[c].previous_sql = HintOf(call[c].sql)]_vars

\* a second /query request is out after two failed attempts whose hints
\* differ from the ones the caller passed in
C4_Witness ==
    \E c \in Calls :
        /\ ask[c].pc = "generating"
        /\ ask[c].attempt = 2
        /\ tally[c].executionFailed = 2
        /\ ask[c].options.lastError = "earlier error"
        /\ result[c].error = "relation does not exist"
        /\ lastRequest[c].last_error = "relation does not exist"
        /\ lastRequest[c].previous_sql = "SELECT * FROM secrets"

\* statements whose only table is users and that use FROM inside a function
FunctionFromTexts ==
    { "SELECT EXTRACT(YEAR FROM \"created_at\") FROM users",
      "SELECT SUBSTRING(name FROM 2) FROM users",
      "SELECT TRIM(BOTH 'x' FROM name) FROM users",
      "SELECT POSITION('e' FROM message) FROM users" }

AllowsUsers(adapter) ==
    IF adapter.dialect = "postgres"
    THEN tableKey(DefaultSchema, "users") \in SeqToSet(adapter.allowedTables)
    ELSE "users" \in SeqToSet(adapter.allowedTables)

\* C5: the identifier after a function-internal FROM (EXTRACT, SUBSTRING,
\* TRIM, POSITION) is not taken for a table: a statement whose only real
\* table is allow-listed is executed.
C5_FunctionFromIgnored ==
    \A c \in Calls :
        /\ ExecuteInvoked(c)
        /\ call[c].sql \in FunctionFromTexts
        /\ AllowsUsers(call[c].adapter)
        => ExecuteReached(c)

\* C6: the tenant rewrite is idempotent: applied to the SQL and mapping it
\* produced, with the same tenant id, it returns the same SQL and mapping.
C6_RewriteIdempotent ==
    \A c \in Calls :
        Dispatched(c) =>
            ensureTenantIsolation(call[c].finalSql, call[c].finalParams,
                                  call[c].metadata, call[c].tenantId)
            = [sql |-> call[c].finalSql, params |-> call[c].finalParams]

\* a validateAndExecute whose rewrite changed the SQL reached the adapter
C6_Witness ==
    \E c \in Calls :
        /\ Dispatched(c)
        /\ call[c].finalSql # call[c].sql
        /\ ExecuteInvoked(c)

\* every adapter call of c was handed sql
HandedSql(c, sql) ==
    \A i \in 1..Len(adapterCalls[c]) : adapterCalls[c][i].sql = sql

\* C7: relational dialect, tenant field F enforced, input with neither F
\* nor the keyword WHERE: the adapter is handed the input followed by
\* " WHERE F = '<tenantId>'".
C7_RelationalAppend ==
    \A c \in Calls :
        /\ Dispatched(c)
        /\ call[c].metadata.dialect = "postgres"
        /\ Enforced(call[c].metadata)
        /\ ~MentionsField(call[c].sql, call[c].metadata)
        /\ WherePositions(call[c].sql) = {}
        => HandedSql(c, call[c].sql \o " WHERE "
                        \o call[c].metadata.tenantFieldName \o " = '"
                        \o call[c].tenantId \o "'")

C7_Witness ==
    \E c \in Calls :
        /\ Dispatched(c)
        /\ ExecuteInvoked(c)
        /\ call[c].metadata.dialect = "postgres"
        /\ Enforced(call[c].metadata)
        /\ call[c].sql = "SELECT * FROM users"
        /\ call[c].tenantId = "t-123"
        /\ ExecutedSql(c) = "SELECT * FROM users WHERE tenant_id = 't-123'"

\* C8: for the relational dialect the mapping handed to adapter.validate
\* and adapter.execute is the mapping the caller supplied.
C8_RelationalParamsUntouched ==
    \A c \in Calls :
        Dispatched(c) /\ call[c].metadata.dialect = "postgres" =>
            \A i \in 1..Len(adapterCalls[c]) :
                adapterCalls[c][i].params = call[c].params

\* C9: columnar dialect, tenant field F of type T (default String)
\* enforced, input with neither F nor WHERE: the adapter is handed the
\* input followed by " WHERE F = {F:T}" and a mapping with F bound to the
\* tenant id.
C9_ColumnarAppend ==
    \A c \in Calls :
        /\ Dispatched(c)
        /\ call[c].metadata.dialect = "clickhouse"
        /\ Enforced(call[c].metadata)
        /\ ~MentionsField(call[c].sql, call[c].metadata)
        /\ WherePositions(call[c].sql) = {}
        => /\ HandedSql(c, call[c].sql \o " WHERE "
                  \o call[c].metadata.tenantFieldName \o " = {"
                  \o call[c].metadata.tenantFieldName \o ":"
                  \o (IF call[c].metadata.tenantFieldType = Undefined
                      THEN "String" ELSE call[c].metadata.tenantFieldType)
                  \o "}")
           /\ \A i \in 1..Len(adapterCalls[c]) :
                 HasParam(adapterCalls[c][i].params,
                          call[c].metadata.tenantFieldName, call[c].tenantId)

C9_Witness ==
    \E c \in Calls :
        /\ Dispatched(c)
        /\ ExecuteInvoked(c)
        /\ call[c].metadata.dialect = "clickhouse"
        /\ call[c].sql = "SELECT * FROM users"
        /\ call[c].tenantId = "t-123"
        /\ ExecutedSql(c)
             = "SELECT * FROM users WHERE tenant_id = {tenant_id:String}"
        /\ HasParam(adapterCalls[c][2].params, "tenant_id", "t-123")

\* C10: input with the keyword WHERE and without the tenant field: the
\* predicate stands right after the first WHERE, then AND, then the rest
\* of the input; the text before it is unchanged and no WHERE is added.
C10_SpliceAfterFirstWhere ==
    \A c \in Calls :
        /\ Dispatched(c)
        /\ Enforced(call[c].metadata)
        /\ ~MentionsField(call[c].sql, call[c].metadata)
        /\ WherePositions(call[c].sql) # {}
        => LET sql == call[c].sql
               w == CHOOSE w \in WherePositions(sql) :
                        \A v \in WherePositions(sql) : w <= v
               expected ==
                   SubSeq(sql, 1, w + 4) \o " "
                   \o ScopingPredicate(call[c].metadata, call[c].tenantId)
                   \o " AND " \o Slice(sql, w + 5, Len(sql))
           IN  /\ HandedSql(c, expected)
               /\ Cardinality(WherePositions(call[c].finalSql))
                    = Cardinality(WherePositions(sql))

C10_Witness ==
    \E c \in Calls :
        /\ Dispatched(c)
        /\ ExecuteInvoked(c)
        /\ call[c].sql = "SELECT * FROM users WHERE active = true"
        /\ call[c].tenantId = "t-123"
        /\ ExecutedSql(c) =
             "SELECT * FROM users WHERE tenant_id = 't-123' AND  active = true"

\* every adapter call of c was handed sql and params
HandedUnchanged(c) ==
    \A i \in 1..Len(adapterCalls[c]) :
        /\ adapterCalls[c][i].sql = call[c].sql
        /\ adapterCalls[c][i].params = call[c].params

\* C11: an input SQL that already contains the tenant field name, in any
\* case and anywhere, reaches the adapter unchanged together with an
\* unchanged parameter mapping.
C11_PresentFieldUnchanged ==
    \A c \in Calls :
        /\ Dispatched(c)
        /\ Truthy(call[c].metadata.tenantFieldName)
        /\ MentionsField(call[c].sql, call[c].metadata)
        => HandedUnchanged(c)

\* C12: without a tenant field name, or with enforcement explicitly false,
\* adapter.validate and adapter.execute are handed exactly the SQL and the
\* parameter mapping validateAndExecute was given.
C12_NotEnforcedUnchanged ==
    \A c \in Calls :
        Dispatched(c) /\ ~Enforced(call[c].metadata) => HandedUnchanged(c)

\* both ways of not enforcing have reached adapter.execute: enforcement
\* false with a tenant field, and no tenant field at all
C12_Witness ==
    \E c \in Calls :
        /\ Dispatched(c)
        /\ ExecuteInvoked(c)
        /\ Len(adapterCalls[c]) = 2
        /\ HandedUnchanged(c)
        /\ call[c].params = [n |-> "5"]
        /\ \/ /\ call[c].metadata.enforceTenantIsolation = "false"
              /\ call[c].metadata.tenantFieldName = "tenant_id"
              /\ call[c].sql = "SELECT * FROM users"
           \/ ~Truthy(call[c].metadata.tenantFieldName)

\* the value the claim puts in the list for a value of a numeric key: the
\* value of the key named between angle brackets when the mapping has it
ResolvedValue(params, val) ==
    IF IsPlaceholderToken(val) /\ TokenName(val) \in DOMAIN params
    THEN params[TokenName(val)]
    ELSE val

\* list holds the values of the numeric keys of params in ascending numeric
\* order, then the values of the other keys in lexical order of the keys
IsPositionalListOf(list, params) ==
    LET numeric == {k \in DOMAIN params : IsNumericKey(k)}
        named == DOMAIN params \ numeric
        n == Cardinality(numeric)
        rank(k) == Cardinality({j \in named : StringLess(j, k)}) + 1
    IN  /\ Len(list) = Cardinality(DOMAIN params)
        /\ \E f \in [1..n -> numeric] :
              /\ \A i, j \in 1..n : i < j =>
                    f[i] # f[j] /\ ParseInt(f[i]) <= ParseInt(f[j])
              /\ \A i \in 1..n : list[i] = ResolvedValue(params, params[f[i]])
        /\ \A k \in named : list[n + rank(k)] = params[k]

\* C13: the positional list the relational adapter hands to the low-level
\* function holds the values of the purely numeric keys in ascending
\* numeric order (a <name> value replaced by the value of key name when the
\* mapping has it), then the values of the other keys in lexical order, one
\* entry per key.
C13_PositionalParams ==
    \A c \in Calls :
        \A i \in 1..Len(clientParams[c]) :
            clientParams[c][i].kind = "positional" =>
                IsPositionalListOf(clientParams[c][i].values,
                                   call[c].finalParams)

\* call c is in ask or modifyChart and waits for validateAndExecute
AwaitsExecution(c) == ask[c].pc \in {"executing", "modExecuting"}

\* C14: in ask and in modifyChart a /chart or /vizspec request is posted
\* only in the step after an execution that returned at least one row; when
\* the execution returned zero rows the call returns at once, without a
\* chart request, with the chart notes "Query returned no rows.".
C14_ChartOnlyWithRows ==
    [][\A c \in Calls :
          /\ posted'[c].chart # posted[c].chart =>
                /\ AwaitsExecution(c)
                /\ result[c].status = "ok"
                /\ result[c].rows >= 1
                /\ posted'[c].chart = posted[c].chart + 1
                /\ lastRequest'[c].path \in {"/chart", "/vizspec"}
          /\ ( /\ AwaitsExecution(c)
               /\ ask'[c].pc # ask[c].pc
               /\ result[c].status = "ok"
               /\ result[c].rows = 0 ) =>
                /\ ask'[c].pc = "done"
                /\ outcome'[c].status = "returned"
                /\ outcome'[c].notes = NoRowsNotes
                /\ posted'[c] = posted[c]]_vars

\* a modifyChart call has returned after an execution without rows and
\* without a chart request
C14_Witness ==
    \E c \in Calls :
        /\ ask[c].pc = "done"
        /\ outcome[c] = ModifyReturned(NoRowsNotes)
        /\ result[c] = Returned(0)
        /\ call[c].op = "validateAndExecute"
        /\ posted[c].chart = 0

\* this step of call c is the failure of a /query, /chart or /vizspec
\* request
CollaboratorFails(c) ==
    \/ tally'[c].generationFailed # tally[c].generationFailed
    \/ tally'[c].chartFailed # tally[c].chartFailed

\* C15: in ask the failure of a generation request or of a chart request is
\* raised to the caller in that step: the attempt counter stays, and no
\* further request is posted.
C15_CollaboratorFailureRaised ==
    [][\A c \in Calls :
          CollaboratorFails(c) =>
              /\ ask'[c].pc = "done"
              /\ outcome'[c].status = "raised"
              /\ posted'[c] = posted[c]]_vars

\* the error validateAndExecute raised in call c is an allow-list rejection
AllowListRejected(c) ==
    /\ result[c].status = "error"
    /\ Includes(result[c].error, "which is not in the allowed tables list")

\* C16: in ask, when the generated SQL is rejected by the allow-list, that
\* error is raised to the caller and no further generation request is
\* posted, whatever maxRetry is.
C16_RejectionNotRetried ==
    [][\A c \in Calls :
          /\ ask[c].pc = "executing"
          /\ pc[c] = "idle"
          /\ AllowListRejected(c)
          /\ ask'[c] # ask[c]
          => /\ ask'[c].pc = "done"
             /\ outcome'[c] = AskRaised(result[c].error)
             /\ posted'[c] = posted[c]]_vars

\* C16 amended: in ask an allow-list rejection of the generated SQL is
\* handled like any other failed execution attempt: while the attempt count
\* does not exceed maxRetry the next generation request is posted with the
\* rejection message as last_error and the rejected SQL as previous_sql;
\* the rejection is raised to the caller only when the budget is used up.
C16_RejectionRetriedWithinBudget ==
    [][\A c \in Calls :
          /\ ask[c].pc = "executing"
          /\ pc[c] = "idle"
          /\ AllowListRejected(c)
          /\ ask'[c] # ask[c]
          => IF ask[c].attempt + 1 > ask[c].maxRetry
             THEN /\ ask'[c].pc = "done"
                  /\ outcome'[c] = AskRaised(result[c].error)
                  /\ posted'[c] = posted[c]
             ELSE /\ ask'[c].pc = "generating"
                  /\ posted'[c].query = posted[c].query + 1
                  /\ lastRequest'[c].path = "/query"
                  /\ lastRequest'[c].last_error = result[c].error
                  /\ lastRequest'[c].previous_sql = HintOf(call[c].sql)]_vars

\* a second generation request is out after the allow-list rejected the
\* first generated statement
C16_Witness ==
    \E c \in Calls :
        /\ ask[c].pc = "generating"
        /\ ask[c].attempt = 1
        /\ AllowListRejected(c)
        /\ posted[c].query = 2
        /\ lastRequest[c].last_error = result[c].error
        /\ lastRequest[c].previous_sql = "SELECT * FROM secrets"

\* C17: getDefaultDatabase is undefined before any attachment, the first
\* attachDatabase makes its name the default, and later attachments never
\* change the default.
C17_FirstAttachedIsDefault ==
    /\ [](DOMAIN databases = {} => getDefaultDatabase = Undefined)
    /\ [][IF DOMAIN databases = {}
          THEN DOMAIN databases' # {} =>
                  DOMAIN databases' = {getDefaultDatabase'}
          ELSE getDefaultDatabase' = getDefaultDatabase]_vars

\* C18: the registry is write-once per name: an entry that is there stays,
\* with the adapter and the metadata of its first attachment, whatever is
\* attached, looked up or executed later.
C18_WriteOncePerName ==
    [][\A name \in DOMAIN databases :
          /\ name \in DOMAIN databases'
          /\ databases'[name] = databases[name]
          /\ databaseMetadata'[name] = databaseMetadata[name]]_vars

\* table is named by the filter of a catalog request of call c, or the
\* request has no filter and reads the whole catalog
LookedUp(c, table) ==
    \E i \in 1..Len(clientCalls[c]) :
        IF call[c].adapter.dialect = "postgres"
        THEN LET parts == SplitTable(table, DefaultSchema)
             IN  \/ Includes(clientCalls[c][i],
                        "relname = '" \o parts.table \o "'")
                 \/ Includes(clientCalls[c][i],
                        "table_name = '" \o parts.table \o "'")
                 \/ ~Includes(clientCalls[c][i], " = '")
        ELSE \/ "tables" \notin DOMAIN clientParams[c][i].values
             \/ table \in SeqToSet(clientParams[c][i].values.tables)

\* the tables the caller of introspect asked for, as the catalog names them
RequestedTables(c) ==
    { LET parts == SplitTable(Trim(call[c].params.tables[i]), DefaultSchema)
      IN  IF call[c].adapter.dialect = "postgres"
          THEN tableKey(parts.schema, parts.table)
          ELSE parts.table
      : i \in 1..Len(call[c].params.tables) }

\* C19: on an adapter with a non-empty allow-list, a table asked of
\* introspect that is not in the allow-list is never looked up in the
\* catalog and never appears in the SchemaIntrospection returned.
C19_IntrospectWithinAllowList ==
    \A c \in Calls :
        /\ call[c].op = "adapter.introspect"
        /\ HasAllowList(call[c].adapter)
        /\ call[c].params.given
        => \A table \in RequestedTables(c) \ ConfiguredTables(call[c].adapter) :
              /\ ~LookedUp(c, table)
              /\ table \notin introspection[c].tables

\* call c is an invocation of the local helper QueryEngine.execute
IsLocalExecute(c) == call[c].op = "execute"

\* C20: QueryEngine.execute never raises.  When the named database is not
\* attached, or adapter.execute rejects the statement or fails on it, the
\* helper returns an empty row list; when the statement succeeds it returns
\* exactly the rows the adapter answered; no step of the helper changes the
\* registry.
C20_LocalExecuteNeverRaises ==
    /\ [](\A c \in Calls : IsLocalExecute(c) => result[c].status # "error")
    /\ [][\A c \in Calls :
            /\ (call[c].op = "none" /\ IsLocalExecute(c)'
                /\ \/ ~HasDatabase(call'[c].databaseName)
                   \/ AdapterCheckTables(call'[c].adapter, call'[c].sql) # NoError)
               => /\ result'[c] = Returned(0)
                  /\ pc'[c] = "idle"
                  /\ clientCalls'[c] = <<>>
            /\ (IsLocalExecute(c) /\ pc[c] = "execute" /\ pc'[c] = "idle")
               => \/ \E rows \in RowCounts :
                        /\ ExecuteSucceeds(c, rows)
                        /\ result'[c] \in
                              {ReturnedRows(data) : data \in ResultRows(rows)}
                  \/ \E message \in ClientErrors :
                        /\ ExecuteFails(c, message)
                        /\ result'[c] = Returned(0)
            /\ (IsLocalExecute(c)' /\ <<call[c], pc[c], result[c]>>' #
                                        <<call[c], pc[c], result[c]>>)
               => UNCHANGED registryVars
         ]_vars

\* the statement of a local execute failed in the database after it was
\* sent, and the helper returned no rows
C20_Witness ==
    \E c \in Calls :
        /\ IsLocalExecute(c)
        /\ Len(clientCalls[c]) = 1
        /\ pc[c] = "idle"
        /\ result[c] = Returned(0)

\* the tags the specification allows in an anonymized row
CoarseTags == {"number", "string", "boolean", "array", "null"}

\* masked is rows with every value replaced by a tag of CoarseTags: as many
\* rows, each with the keys of its row, null tagged "null" and an array
\* "array"
IsAnonymizedAs(masked, rows) ==
    /\ Len(masked) = Len(rows)
    /\ \A i \in 1..Len(rows) :
          /\ DOMAIN masked[i] = DOMAIN rows[i]
          /\ \A key \in DOMAIN rows[i] :
                /\ masked[i][key] \in CoarseTags
                /\ rows[i][key].kind = "null" => masked[i][key] = "null"
                /\ rows[i][key].kind = "array" => masked[i][key] = "array"

\* C21: the rows of the chart request ask posts are the rows of the
\* execution with every value replaced by a tag from number, string,
\* boolean, array, null; the number of rows and the keys of each row are
\* kept.
C21_ChartRowsCoarseTags ==
    \A c \in Calls :
        ask[c].pc = "charting"
        => IsAnonymizedAs(lastRequest[c].rows, result[c].data)

\* C22: when ask is called with options.database set, validateAndExecute
\* receives options.database as its database name, whatever the generation
\* response contains.
C22_OptionsDatabaseExecuted ==
    \A c \in Calls :
        /\ ask[c].pc = "executing"
        /\ Truthy(ask[c].options.database)
        => /\ call[c].op = "validateAndExecute"
           /\ call[c].databaseName = ask[c].options.database

\* call c has sent no collaborator request and made no database call
NothingSent(c) ==
    /\ posted[c] = NoPosted
    /\ lastRequest[c] = NoRequest
    /\ call[c].op = "none"
    /\ adapterCalls[c] = <<>>
    /\ clientCalls[c] = <<>>

\* C23: a route operation (ask, modifyChart, syncSchema, a chart or
\* active-chart operation) works with the per-call tenant when one is
\* given and else with the client's default; when neither is there it fails
\* with "tenantId is required" and has sent no collaborator request and
\* made no database call.
C23_TenantResolvedFirst ==
    /\ [](\A c \in Calls :
            (ask[c].pc = "done" /\ outcome[c] = AskRaised(TenantRequiredMessage))
            => NothingSent(c))
    /\ [][\A c \in Calls :
            (ask[c].pc = "idle" /\ ask'[c].pc # "idle") =>
               LET option == ask'[c].options.tenantId
                   default == ask'[c].defaultTenantId
               IN  /\ Truthy(option)
                      => /\ ask'[c].tenantId = option
                         /\ outcome'[c] # AskRaised(TenantRequiredMessage)
                   /\ (option = Undefined /\ Truthy(default))
                      => /\ ask'[c].tenantId = default
                         /\ outcome'[c] # AskRaised(TenantRequiredMessage)
                   /\ (~Truthy(option) /\ ~Truthy(default))
                      => /\ ask'[c].pc = "done"
                         /\ outcome'[c] = AskRaised(TenantRequiredMessage)
                         /\ NothingSent(c)'
         ]_vars

\* a route operation called without a tenant on a client without a default
\* has failed with nothing sent
C23_Witness ==
    \E c \in Calls :
        /\ ask[c].pc = "done"
        /\ ask[c].options.tenantId = Undefined
        /\ ask[c].defaultTenantId = Undefined
        /\ outcome[c] = AskRaised(TenantRequiredMessage)
        /\ NothingSent(c)

\* C24: within one validateAndExecute request the allow-list validation
\* comes first: while the SQL handed to the adapter references a table
\* outside a non-empty allow-list, no statement, not even the EXPLAIN
\* dry-run, has been sent to the low-level function; and adapter.validate
\* precedes adapter.execute.
C24_AllowListBeforeExplain ==
    \A c \in Calls :
        call[c].op = "validateAndExecute" =>
            /\ (HasAllowList(call[c].adapter)
                /\ AdapterCheckTables(call[c].adapter, call[c].finalSql) # NoError)
               => clientCalls[c] = <<>>
            /\ \A i \in 1..Len(adapterCalls[c]) :
                  adapterCalls[c][i].method = "execute"
                  => (i = 2 /\ adapterCalls[c][1].method = "validate")

\* the one application of the tenant rewrite to what call c was given
RewrittenOnce(c) ==
    ensureTenantIsolation(call[c].sql, call[c].params, call[c].metadata,
                          call[c].tenantId)

\* C25: in a validateAndExecute request the tenant rewrite is applied once,
\* before the adapter is called: adapter.validate and adapter.execute, in
\* that order and each at most once, both receive the SQL and the mapping
\* of that one application.
C25_RewrittenOnceForBoth ==
    \A c \in Calls :
        call[c].op = "validateAndExecute" =>
            /\ Len(adapterCalls[c]) <= 2
            /\ \A i \in 1..Len(adapterCalls[c]) :
                  /\ adapterCalls[c][i].method =
                        (IF i = 1 THEN "validate" ELSE "execute")
                  /\ adapterCalls[c][i].sql = RewrittenOnce(c).sql
                  /\ adapterCalls[c][i].params = RewrittenOnce(c).params

\* both adapter calls were made with SQL the rewrite has changed
C25_Witness ==
    \E c \in Calls :
        /\ call[c].op = "validateAndExecute"
        /\ Len(adapterCalls[c]) = 2
        /\ adapterCalls[c][2].sql # call[c].sql
        /\ adapterCalls[c][1] =
              [adapterCalls[c][2] EXCEPT !.method = "validate"]

\* the request call c is waiting for ends in this step after the caller's
\* signal has fired: it can only have rejected with the abort error
CancelledStepFails(c) ==
    /\ ask[c].aborted
    /\ ask[c].pc \in {"generating", "charting"}
    /\ ask'[c].pc # ask[c].pc

\* C26: in ask, when the step in flight fails because the caller's signal
\* has fired, the call raises that cancellation failure and posts no
\* further /query request, whatever maxRetry is.
C26_CancellationEndsAsk ==
    [][\A c \in Calls :
          CancelledStepFails(c) =>
              /\ ask'[c].pc = "done"
              /\ outcome'[c] = AskRaised(AbortMessage)
              /\ posted'[c].query = posted[c].query]_vars

\* what belongs to the ask call c
OwnState(c) ==
    <<ask[c], lastRequest[c], posted[c], lastFailure[c], tally[c],
      outcome[c], call[c], pc[c], result[c]>>

\* the message of the failure the catch block of call c handles in this
\* step: the error of its own execution, or of its own chart request
OwnFailures(c) ==
    IF ask[c].pc = "executing" THEN {result[c].error} ELSE ServiceErrors

\* C27: for any interleaving of two concurrent ask calls on one QueryEngine
\* and one client, a step of one call changes nothing of the other; a
\* repair request of a call carries the message of that call's own failed
\* attempt and that call's own SQL, and no call posts more than its own
\* maxRetry + 1 generation requests.
C27_OwnRetryState ==
    /\ [](\A c \in Calls :
            ask[c].pc \notin {"idle"} /\ ask[c].maxRetry >= 0
            => posted[c].query <= ask[c].maxRetry + 1)
    /\ [][\A c \in Calls :
            /\ OwnState(c)' # OwnState(c)
               => \A d \in Calls \ {c} : OwnState(d)' = OwnState(d)
            /\ (ask[c].pc \in {"executing", "charting"}
                /\ posted'[c].query = posted[c].query + 1)
               => /\ lastRequest'[c].last_error \in
                        {HintOf(message) : message \in OwnFailures(c)}
                  /\ lastRequest'[c].previous_sql = HintOf(ask[c].sql)
                  /\ ask'[c].attempt = ask[c].attempt + 1
         ]_vars

\* both calls are retrying at once, after failures with different messages
C27_Witness ==
    /\ ask[1].pc = "generating"
    /\ ask[2].pc = "generating"
    /\ ask[1].attempt = 1
    /\ ask[2].attempt = 1
    /\ lastFailure[1].message # lastFailure[2].message
    /\ lastFailure[1].sql # lastFailure[2].sql

\* C28: in validateAndExecute, when adapter.validate fails, the error of the
\* database is raised to the caller as it is, and adapter.execute is not
\* invoked for that request: no adapter call and no statement is added.
C28_ValidateFailureRaised ==
    [][\A c \in Calls : \A message \in ClientErrors :
          (call[c].op = "validateAndExecute" /\ ValidateFails(c, message))
          => /\ result'[c] = Raised(message)
             /\ pc'[c] = "idle"
             /\ adapterCalls'[c] = adapterCalls[c]
             /\ \A i \in 1..Len(adapterCalls'[c]) :
                   adapterCalls'[c][i].method # "execute"
             /\ clientCalls'[c] = clientCalls[c]]_vars

\* adapter.validate failed and validateAndExecute raised the error of the
\* database: one adapter call, one statement
C28_Witness ==
    \E c \in Calls :
        /\ call[c].op = "validateAndExecute"
        /\ pc[c] = "idle"
        /\ result[c] = Raised("relation does not exist")
        /\ Len(adapterCalls[c]) = 1
        /\ adapterCalls[c][1].method = "validate"
        /\ Len(clientCalls[c]) = 1

\* C29: an adapter constructed with a non-empty allowedTables list keeps a
\* restriction whatever normalisation drops from the list, and its execute
\* sends no statement in which a table reference outside the configured
\* list was found.
C29_AllowListNeverDegrades ==
    \A c \in Calls :
        (ExecuteInvoked(c) /\ HasAllowList(call[c].adapter)) =>
            /\ Len(call[c].adapter.allowedTables) > 0
            /\ ExecuteReached(c) =>
                  ExtractedTables(call[c].adapter, ExecutedSql(c))
                      \subseteq ConfiguredTables(call[c].adapter)

\* C30: for every maxRetry (omitted, 0, positive, negative) an ask call
\* that has a tenant posts at least one generation request, and it never
\* ends by raising the error of the statement after the retry loop.
C30_LoopAlwaysEntered ==
    \A c \in Calls :
        (ask[c].pc # "idle" /\ Truthy(ask[c].tenantId))
        => /\ posted[c].query >= 1
           /\ outcome[c] # AskRaised(UnexpectedMessage)

====
